---------------------------- MODULE Spec2Model ----------------------------
(***************************************************************************)
(* GRDECL corner-point grid reader and cell-geometry reconstructor         *)
(* (src/src/lib/utils/grdeclParser.ts), modelled as a state machine: the   *)
(* section scan of parseGrdecl runs one input line per step, and           *)
(* generateCellVertices runs one cell of its k/j/i loop nest per step.     *)
(***************************************************************************)
EXTENDS Integers, Sequences, FiniteSets, TLC

(***************************************************************************)
(* JavaScript numbers.  A value is a record [n, d]:                        *)
(*   d > 0   the finite number n/d, in lowest terms;                       *)
(*   d = 0   NaN (n = 0), +Infinity (n = 1), -Infinity (n = -1);           *)
(*   d = -1  the value `undefined` (an array read past the end).           *)
(* Arithmetic is exact; the inputs drawn below keep every quotient dyadic, *)
(* so the doubles the program computes are these values.                   *)
(***************************************************************************)
Abs(x) == IF x < 0 THEN -x ELSE x

Sgn(x) == IF x < 0 THEN -1 ELSE IF x > 0 THEN 1 ELSE 0

RECURSIVE GCD(_, _)
GCD(a, b) == IF b = 0 THEN a ELSE GCD(b, a % b)

NaN == [n |-> 0, d |-> 0]

Undefined == [n |-> 0, d |-> -1]

Inf(s) == [n |-> s, d |-> 0]

Num(i) == [n |-> i, d |-> 1]

Frac(n, d) ==
    LET g == GCD(Abs(n), Abs(d))
        s == IF d < 0 THEN -1 ELSE 1
    IN  [n |-> (s * n) \div g, d |-> (s * d) \div g]

IsFinite(q) == q.d > 0

IsNaN(q) == (q.d = 0 /\ q.n = 0) \/ q.d = -1

\* ToNumber: undefined becomes NaN in arithmetic.
ToNumber(q) == IF q.d = -1 THEN NaN ELSE q

Neg(q) == [n |-> -q.n, d |-> q.d]

Add(x, y) ==
    LET a == ToNumber(x)
        b == ToNumber(y)
    IN  IF IsNaN(a) \/ IsNaN(b) THEN NaN
        ELSE IF ~IsFinite(a) /\ ~IsFinite(b)
             THEN (IF a.n = b.n THEN a ELSE NaN)
        ELSE IF ~IsFinite(a) THEN a
        ELSE IF ~IsFinite(b) THEN b
        ELSE Frac(a.n * b.d + b.n * a.d, a.d * b.d)

Sub(x, y) == Add(x, Neg(ToNumber(y)))

Mul(x, y) ==
    LET a == ToNumber(x)
        b == ToNumber(y)
    IN  IF IsNaN(a) \/ IsNaN(b) THEN NaN
        ELSE IF ~IsFinite(a) \/ ~IsFinite(b)
             THEN (IF a.n = 0 \/ b.n = 0 THEN NaN ELSE Inf(Sgn(a.n) * Sgn(b.n)))
        ELSE Frac(a.n * b.n, a.d * b.d)

Div(x, y) ==
    LET a == ToNumber(x)
        b == ToNumber(y)
    IN  IF IsNaN(a) \/ IsNaN(b) THEN NaN
        ELSE IF ~IsFinite(a) /\ ~IsFinite(b) THEN NaN
        ELSE IF ~IsFinite(a) THEN Inf(a.n * (IF b.n < 0 THEN -1 ELSE 1))
        ELSE IF ~IsFinite(b) THEN Num(0)
        ELSE IF b.n = 0 THEN (IF a.n = 0 THEN NaN ELSE Inf(Sgn(a.n)))
        ELSE Frac(a.n * b.d, a.d * b.n)

\* a < b on numbers: false as soon as one side is NaN.
Less(x, y) ==
    LET a == ToNumber(x)
        b == ToNumber(y)
    IN  IF IsNaN(a) \/ IsNaN(b) THEN FALSE
        ELSE IF ~IsFinite(a) THEN a.n = -1 /\ b # a
        ELSE IF ~IsFinite(b) THEN b.n = 1
        ELSE a.n * b.d < b.n * a.d

\* Mutant of IsZero: the truthiness test `!x` instead of `x === 0`.
IsFalsy(q) == ~IsFinite(q) \/ q.n = 0

\* x === 0
IsZero(q) == q.d > 0 /\ q.n = 0

\* arr[idx] for a 0-based index: undefined past the end.
At(arr, idx) ==
    IF idx >= 0 /\ idx < Len(arr) THEN arr[idx + 1] ELSE Undefined

(***************************************************************************)
(* Text.  A line (already trimmed) is the sequence of its whitespace-      *)
(* separated tokens; a token is a record [k, w, a, b]:                     *)
(*   "int"      the decimal integer a                ("2", "-1")           *)
(*   "dec"      the decimal a.5                      ("1.5")               *)
(*   "micro"    the decimal a * 10^-7, |a| < 10      ("-0.0000004")        *)
(*   "rle"      the run-length pair a*b              ("3*1")               *)
(*   "flag"     the letter F                                               *)
(*   "slash"    the terminator /                                           *)
(*   "intslash" the integer a with the terminator attached ("1/")          *)
(*   "kw"       the word w, one of the four keywords                       *)
(*   "kwx"      a longer word that begins with keyword w ("COORDSYS")      *)
(*   "word"     any other word w                     ("PORO", "T")         *)
(***************************************************************************)
TInt(a) == [k |-> "int", w |-> "", a |-> a, b |-> 0]

TDec(a) == [k |-> "dec", w |-> "", a |-> a, b |-> 5]

TMicro(a) == [k |-> "micro", w |-> "", a |-> a, b |-> 0]

TRle(c, v) == [k |-> "rle", w |-> "", a |-> c, b |-> v]

TFlag == [k |-> "flag", w |-> "F", a |-> 0, b |-> 0]

TSlash == [k |-> "slash", w |-> "/", a |-> 0, b |-> 0]

TIntSlash(a) == [k |-> "intslash", w |-> "/", a |-> a, b |-> 0]

TKw(w) == [k |-> "kw", w |-> w, a |-> 0, b |-> 0]

TKwx(w) == [k |-> "kwx", w |-> w, a |-> 0, b |-> 0]

TWord(w) == [k |-> "word", w |-> w, a |-> 0, b |-> 0]

Keywords == {"SPECGRID", "COORD", "ZCORN", "ACTNUM"}

\* token.includes('/')
IncludesSlash(t) == t.k \in {"slash", "intslash"}

\* token.includes('*')
IncludesStar(t) == t.k = "rle"

\* parseInt(text): the leading integer of the text, NaN when it has none.
parseInt(t) ==
    IF t.k \in {"int", "dec", "rle", "intslash"} THEN Num(t.a)
    ELSE IF t.k = "micro" THEN Num(0)
    ELSE NaN

\* parseFloat(text): the leading decimal number of the text.
parseFloat(t) ==
    IF t.k \in {"int", "rle", "intslash"} THEN Num(t.a)
    ELSE IF t.k = "dec"
         THEN (IF t.a < 0 THEN Frac(2 * t.a - 1, 2) ELSE Frac(2 * t.a + 1, 2))
    ELSE IF t.k = "micro" THEN Frac(t.a, 10000000)
    ELSE NaN

\* line.startsWith(kw)
StartsWith(line, kw) ==
    Len(line) > 0 /\ line[1].k \in {"kw", "kwx"} /\ line[1].w = kw

IsKeywordLine(line) == \E kw \in Keywords : StartsWith(line, kw)

KeywordOf(line) == CHOOSE kw \in Keywords : StartsWith(line, kw)

\* line === '/' || line.endsWith('/')
EndsWithSlash(line) == Len(line) > 0 /\ IncludesSlash(line[Len(line)])

\* line.substring(0, line.lastIndexOf('/')).trim(), as a line
dataBeforeSlash(line) ==
    LET last == line[Len(line)]
        head == SubSeq(line, 1, Len(line) - 1)
    IN  IF last.k = "intslash" THEN Append(head, TInt(last.a)) ELSE head

RECURSIVE Flatten(_)
Flatten(data) ==
    IF data = <<>> THEN <<>> ELSE Head(data) \o Flatten(Tail(data))

\* data.join(' ').split(/\s+/).filter(v => v.length > 0 && !v.includes('/'))
Tokens(data) == SelectSeq(Flatten(data), LAMBDA t : ~IncludesSlash(t))

(***************************************************************************)
(* The four section parsers (pure functions of the collected lines).       *)
(***************************************************************************)
\* Mutant of parseSpecgrid: the F flag is not filtered out.
parseSpecgridKeepingFlag(data) ==
    LET values == Tokens(data)
        int(idx) == IF idx < Len(values) THEN parseInt(values[idx + 1]) ELSE NaN
    IN  [nx |-> int(0), ny |-> int(1), nz |-> int(2)]

parseSpecgrid(data) ==
    LET values == SelectSeq(Tokens(data), LAMBDA t : t.k # "flag")
        int(idx) == IF idx < Len(values) THEN parseInt(values[idx + 1]) ELSE NaN
    IN  [nx |-> int(0), ny |-> int(1), nz |-> int(2)]

parseZcorn(data) ==
    LET toks == Tokens(data)
    IN  [x \in 1..Len(toks) |-> parseFloat(toks[x])]

\* Mutant of parseCoord: each pillar starts one token late.
parseCoordShifted(data) ==
    LET toks == Tokens(data)
        values == [x \in 1..Len(toks) |-> parseFloat(toks[x])]
        count == (Len(values) + 5) \div 6
    IN  [p \in 1..count |-> [c \in 1..6 |-> At(values, 6 * (p - 1) + c)]]

parseCoord(data) ==
    LET toks == Tokens(data)
        values == [x \in 1..Len(toks) |-> parseFloat(toks[x])]
        count == (Len(values) + 5) \div 6
    IN  [p \in 1..count |-> [c \in 1..6 |-> At(values, 6 * (p - 1) + (c - 1))]]

\* Mutant of Repeat: the loop bound is inclusive (i <= repeatCount).
RepeatInclusive(value, count) == [x \in 1..(IF count >= 0 THEN count + 1 ELSE 0) |-> value]

Repeat(value, count) == [x \in 1..(IF count > 0 THEN count ELSE 0) |-> value]

\* The token loop of parseActnum from token idx (1-based) on, appended to acc.
RECURSIVE ExpandFrom(_, _, _)
ExpandFrom(tokens, idx, acc) ==
    IF idx > Len(tokens) THEN acc
    ELSE LET token == tokens[idx]
         IN  IF IncludesStar(token)
             THEN ExpandFrom(tokens, idx + 1, acc \o Repeat(Num(token.b), token.a))
             ELSE ExpandFrom(tokens, idx + 1, Append(acc, parseInt(token)))

\* Mutant of parseActnum: the expansion is cut to nx*ny*nz entries.
parseActnumSized(data, grid) ==
    LET expanded == ExpandFrom(Tokens(data), 1, <<>>)
        totalCells == Mul(Mul(grid.nx, grid.ny), grid.nz)
        size == IF IsFinite(totalCells) /\ totalCells.n >= 0 THEN totalCells.n ELSE 0
    IN  IF Len(expanded) = 0
        THEN (IF IsFinite(totalCells) THEN Repeat(Num(1), totalCells.n) ELSE <<>>)
        ELSE SubSeq(expanded, 1, IF size < Len(expanded) THEN size ELSE Len(expanded))

parseActnum(data, grid) ==
    LET expanded == ExpandFrom(Tokens(data), 1, <<>>)
        totalCells == Mul(Mul(grid.nx, grid.ny), grid.nz)
    IN  IF Len(expanded) = 0
        THEN (IF IsFinite(totalCells) THEN Repeat(Num(1), totalCells.n) ELSE <<>>)
        ELSE expanded

(***************************************************************************)
(* Helpers of generateCellVertices.                                        *)
(***************************************************************************)
FractionDigits == 6

RECURSIVE Pow10(_)
Pow10(e) == IF e = 0 THEN 1 ELSE 10 * Pow10(e - 1)

\* x.toFixed(6): the sign and the magnitude rounded to 6 decimals (half up),
\* or the text of a non-finite number.
toFixed(q) ==
    IF IsFinite(q)
    THEN [s |-> IF q.n < 0 THEN "-" ELSE "",
          m |-> (2 * Abs(q.n) * Pow10(FractionDigits) + q.d) \div (2 * q.d)]
    ELSE [s |-> IF q.n = 0 THEN "NaN" ELSE IF q.n > 0 THEN "Infinity" ELSE "-Infinity",
          m |-> 0]

\* `${x.toFixed(6)},${y.toFixed(6)},${z.toFixed(6)}`
VertexKey(v) == <<toFixed(v[1]), toFixed(v[2]), toFixed(v[3])>>

getPillarIndex(nx, ci, cj) == cj * (nx + 1) + ci

interpolatePillar(pillar, z) ==
    LET x1 == pillar[1]
        y1 == pillar[2]
        z1 == pillar[3]
        x2 == pillar[4]
        y2 == pillar[5]
        z2 == pillar[6]
        t == Div(Sub(z, z1), Sub(z2, z1))
    IN  <<Add(x1, Mul(t, Sub(x2, x1))), Add(y1, Mul(t, Sub(y2, y1))), z>>

\* Mutant of addVertex: the counter is not advanced (`return vertexIndex`).
addVertexWithoutCount(pool, v) ==
    LET key == VertexKey(v)
    IN  IF key \in DOMAIN pool.vertexMap
        THEN pool
        ELSE [allVertices |-> Append(pool.allVertices, v),
              vertexMap   |-> pool.vertexMap @@ (key :> pool.vertexIndex),
              vertexIndex |-> pool.vertexIndex]

\* addVertex on the pool [allVertices, vertexMap, vertexIndex].
addVertex(pool, v) ==
    LET key == VertexKey(v)
    IN  IF key \in DOMAIN pool.vertexMap
        THEN pool
        ELSE [allVertices |-> Append(pool.allVertices, v),
              vertexMap   |-> pool.vertexMap @@ (key :> pool.vertexIndex),
              vertexIndex |-> pool.vertexIndex + 1]

\* The loop `for (const vert of cellVerts) addVertex(...)` over the first cnt corners.
RECURSIVE AddVertices(_, _, _)
AddVertices(pool, verts, cnt) ==
    IF cnt = 0 THEN pool
    ELSE addVertex(AddVertices(pool, verts, cnt - 1), verts[cnt])

\* Mutant of zcornOffset: eight entries in a row for each cell.
zcornOffsetCellMajor(nx, ny, ci, cj, ck) == 8 * (ci + cj * nx + ck * nx * ny)

zcornOffset(nx, ny, ci, cj, ck) == 2 * (ci + cj * (2 * nx) + ck * (2 * nx * 2 * ny))

\* Mutant of CornerOffset: the depths of corners 2 and 3 (6 and 7) are exchanged.
CornerOffsetExchanged(nx, ny, c) ==
    (IF c >= 4 THEN 4 * nx * ny ELSE 0)
    + (CASE c % 4 = 0 -> 0
         [] c % 4 = 1 -> 1
         [] c % 4 = 2 -> 2 * nx
         [] c % 4 = 3 -> 2 * nx + 1)

\* The ZCORN index read for corner c (0..7) of a cell, relative to zcornOffset.
CornerOffset(nx, ny, c) ==
    (IF c >= 4 THEN 4 * nx * ny ELSE 0)
    + (CASE c % 4 = 0 -> 0
         [] c % 4 = 1 -> 1
         [] c % 4 = 2 -> 2 * nx + 1
         [] c % 4 = 3 -> 2 * nx)

\* Mutant of CornerPillar: the pillars of corners 1 and 3 (5 and 7) are exchanged.
CornerPillarMirrored(c) ==
    CASE c % 4 = 0 -> <<0, 0>>
      [] c % 4 = 1 -> <<0, 1>>
      [] c % 4 = 2 -> <<1, 1>>
      [] c % 4 = 3 -> <<1, 0>>

\* The pillar (di, dj) of corner c relative to the cell's (i, j).
CornerPillar(c) ==
    CASE c % 4 = 0 -> <<0, 0>>
      [] c % 4 = 1 -> <<1, 0>>
      [] c % 4 = 2 -> <<1, 1>>
      [] c % 4 = 3 -> <<0, 1>>

(***************************************************************************)
(* createCartesianGRDECL of the command-function registry                  *)
(* (src/src/lib/command/functionRegistry.ts): the synthetic box grid.      *)
(***************************************************************************)
dx == 10

dy == 10

dz == 1

\* Mutant of GeneratedCorners: corners 4..7 are listed before corners 0..3.
GeneratedCornersUpperFirst(ci, cj, ck) ==
    LET x0 == Num(ci * dx)
        x1 == Num((ci + 1) * dx)
        y0 == Num(cj * dy)
        y1 == Num((cj + 1) * dy)
        z0 == Num(ck * dz)
        z1 == Num((ck + 1) * dz)
    IN  << <<x0, y0, z1>>, <<x1, y0, z1>>, <<x1, y1, z1>>, <<x0, y1, z1>>,
           <<x0, y0, z0>>, <<x1, y0, z0>>, <<x1, y1, z0>>, <<x0, y1, z0>> >>

\* The 8 vertices pushed for cell (ci, cj, ck).
GeneratedCorners(ci, cj, ck) ==
    LET x0 == Num(ci * dx)
        x1 == Num((ci + 1) * dx)
        y0 == Num(cj * dy)
        y1 == Num((cj + 1) * dy)
        z0 == Num(ck * dz)
        z1 == Num((ck + 1) * dz)
    IN  << <<x0, y0, z0>>, <<x1, y0, z0>>, <<x1, y1, z0>>, <<x0, y1, z0>>,
           <<x0, y0, z1>>, <<x1, y0, z1>>, <<x1, y1, z1>>, <<x0, y1, z1>> >>

\* coord is one flat array: x, y, 0, x, y, nz*dz for every pillar, j outermost.
GeneratedCoord(gx, gy, gz) ==
    [x \in 1..(6 * (gx + 1) * (gy + 1)) |->
        LET p == (x - 1) \div 6
            c == (x - 1) % 6
        IN  CASE c \in {0, 3} -> Num((p % (gx + 1)) * dx)
              [] c \in {1, 4} -> Num((p \div (gx + 1)) * dy)
              [] c = 2        -> Num(0)
              [] c = 5        -> Num(gz * dz)]

\* zcorn: per layer k, 4 tops for every cell and then 4 bottoms for every cell.
GeneratedZcorn(gx, gy, gz) ==
    [x \in 1..(8 * gx * gy * gz) |->
        LET layer == (x - 1) \div (8 * gx * gy)
            within == (x - 1) % (8 * gx * gy)
        IN  IF within < 4 * gx * gy THEN Num(layer * dz) ELSE Num((layer + 1) * dz)]

createCartesianGRDECL(gx, gy, gz) ==
    LET totalCells == gx * gy * gz
    IN  [specgrid |-> [nx |-> Num(gx), ny |-> Num(gy), nz |-> Num(gz)],
         coord    |-> GeneratedCoord(gx, gy, gz),
         zcorn    |-> GeneratedZcorn(gx, gy, gz),
         actnum   |-> [x \in 1..totalCells |-> Num(1)],
         cells    |-> [num |-> totalCells,
                       cellVertices |->
                           [s \in 1..totalCells |->
                               GeneratedCorners((s - 1) % gx,
                                                ((s - 1) \div gx) % gy,
                                                (s - 1) \div (gx * gy))]]]

(***************************************************************************)
(* State.                                                                   *)
(***************************************************************************)
VARIABLES
    lines,            \* fileContent.split('\n').map(trim)
    pc,               \* "scan", "cells", "done" (returned) or "threw"
    lineIndex,        \* the scan loop's i
    currentSection,
    sectionData,
    specgrid,
    coord,
    zcorn,
    actnum,
    k, j, i,          \* the cell loop nest of generateCellVertices
    allVertices,
    cellVertices,
    vertexMap,
    vertexIndex,
    activeCellCount,
    error,            \* the exception thrown, "" when none
    caller,           \* who called parseGrdecl: "direct", "page", "command"; "" when idle
    pending,          \* the handlers suspended at `await fetch(...)`
    grdeclData,       \* +page.svelte: <<>> for null, else <<the grid displayed>>
    grid,             \* +page.svelte: <<>> for null, else <<the grid>>
    fileContent,      \* +page.svelte: the text shown by the file viewer
    statsText,        \* +page.svelte: "loading", "parsing", "grid" or "error"
    loading,          \* +page.svelte
    grids,            \* workspaceManager: name -> grid
    activeGrid,       \* workspaceManager: <<>> for null, else <<the name>>
    outputLines,      \* the command window's output
    isExecuting,      \* the command window's flag
    executed,         \* the number of commands executed so far
    completed,        \* history: input text -> outcome of the first call on it
    commands,         \* commandHistory: the stored commands, oldest first
    currentIndex,     \* commandHistory: the navigation index
    stored,           \* localStorage: whether it exists, and the item saved (<<>> if none)
    returned,         \* the last call on a singleton and what it returned
    accepted,         \* history: the commands added and not refused, oldest first
    visualization,    \* workspaceManager: the visualization settings
    invoked,          \* history: the registry function the last execute ran, <<>> if none
    windowModule,     \* window.Module: "absent", "loading" (not ready) or "ready"
    elapsed,          \* waitForModule: Date.now() - startTime, in ms
    timer,            \* waitForModule: checkModule is "due", "armed" by setTimeout, or "none"
    promise           \* waitForModule: "pending", "resolved" or "rejected"

scanVars == <<lineIndex, currentSection, sectionData, specgrid, coord, zcorn, actnum>>

cellVars == <<k, j, i, allVertices, cellVertices, vertexMap, vertexIndex, activeCellCount>>

pageVars == <<grdeclData, grid, fileContent, statsText, loading>>

historyVars == <<commands, currentIndex, stored, returned, accepted>>

wasmVars == <<windowModule, elapsed, timer, promise>>

shellVars == <<historyVars, visualization, invoked, wasmVars>>

appVars == <<caller, pending, pageVars, grids, activeGrid, outputLines, isExecuting,
             executed, completed, shellVars>>

vars == <<lines, pc, error, scanVars, cellVars, appVars>>

(***************************************************************************)
(* commandHistory.  A command is a string, written as the sequence of its   *)
(* pieces: a piece is a single space or a run of other characters.          *)
(***************************************************************************)
RECURSIVE trimStart(_)
trimStart(text) ==
    IF text # <<>> /\ Head(text) = " " THEN trimStart(Tail(text)) ELSE text

RECURSIVE trimEnd(_)
trimEnd(text) ==
    IF text # <<>> /\ text[Len(text)] = " "
    THEN trimEnd(SubSeq(text, 1, Len(text) - 1)) ELSE text

\* command.trim()
trim(text) == trimEnd(trimStart(text))

maxHistory == 100

\* saveToStorage(): the item is written when localStorage exists.
saveToStorage(list) ==
    IF stored.available THEN [available |-> TRUE, item |-> <<list>>] ELSE stored

\* Mutant of add: the history is not limited.
addWithoutLimit(command) ==
    IF trim(command) = <<>> \/ (commands # <<>> /\ command = commands[Len(commands)])
    THEN UNCHANGED <<commands, currentIndex, stored>>
    ELSE /\ commands' = Append(commands, command)
         /\ currentIndex' = Len(commands')
         /\ stored' = saveToStorage(commands')

\* Mutant of add: the navigation index is reset on every call.
addResettingIndex(command) ==
    IF trim(command) = <<>> \/ (commands # <<>> /\ command = commands[Len(commands)])
    THEN /\ currentIndex' = Len(commands)
         /\ UNCHANGED <<commands, stored>>
    ELSE LET pushed == Append(commands, command)
         IN  /\ commands' = (IF Len(pushed) > maxHistory THEN Tail(pushed) ELSE pushed)
             /\ currentIndex' = Len(commands')
             /\ stored' = saveToStorage(commands')

\* commandHistory.add(command)
add(command) ==
    IF trim(command) = <<>> \/ (commands # <<>> /\ command = commands[Len(commands)])
    THEN UNCHANGED <<commands, currentIndex, stored>>
    ELSE LET pushed == Append(commands, command)
         IN  /\ commands' = (IF Len(pushed) > maxHistory THEN Tail(pushed) ELSE pushed)
             /\ currentIndex' = Len(commands')
             /\ stored' = saveToStorage(commands')

\* A command that add does not refuse joins the commands accepted.
Accepts(command) ==
    trim(command) # <<>> /\ (commands = <<>> \/ command # commands[Len(commands)])

Accept(command) ==
    accepted' = IF Accepts(command) THEN Append(accepted, command) ELSE accepted

\* The values a call returns: null (or nothing), undefined, or a string.
Null == [kind |-> "null", text |-> <<>>]

UndefinedValue == [kind |-> "undefined", text |-> <<>>]

Str(text) == [kind |-> "string", text |-> text]

\* An exception thrown by the call.
Thrown(text) == [kind |-> "threw", text |-> text]

\* The last call on a singleton and what it returned.
CallReturned(op, arg, value) == [op |-> op, arg |-> arg, value |-> value]

\* list[index], with JavaScript's index from 0.
elementAt(list, index) ==
    IF index \in 0..(Len(list) - 1) THEN Str(list[index + 1]) ELSE UndefinedValue

\* executeCommand: commandHistory.add(command)
AddToHistory(command) ==
    /\ add(command)
    /\ Accept(command)
    /\ returned' = CallReturned("add", Str(command), Null)

\* waitForModule has not been called.
NotWaiting ==
    /\ windowModule = "absent"
    /\ elapsed = 0
    /\ timer = "none"
    /\ promise = "pending"

\* createDefaultWorkspace(): the visualization settings
DefaultVisualization ==
    [showWireframe |-> FALSE, colormap |-> "jet", showEdges |-> TRUE,
     cameraView |-> "default"]

\* new CommandHistory() with no item in localStorage
HistoryFresh ==
    /\ commands = <<>>
    /\ currentIndex = -1
    /\ stored = [available |-> TRUE, item |-> <<>>]
    /\ returned = CallReturned("", Null, Null)
    /\ accepted = <<>>

(***************************************************************************)
(* Input files.  Init draws the file from these families: complete grids   *)
(* (GridFiles), grids with missing or degenerate geometry (BrokenFiles),   *)
(* stacked cells meeting near depth 0 (NearZeroFiles), the grids of the    *)
(* Cartesian generator written as text (GeneratedFiles),                   *)
(* and probes that vary one section's tokens (ActnumProbes,                *)
(* SpecgridProbes, CoordProbes) or the line structure (LayoutProbes).      *)
(***************************************************************************)
MaxDim == 2

MaxCount == 3

MaxActnumTokens == 2

MaxSpecgridTokens == 4

MaxCoordTokens == 13

MaxLines == 3

Dims == (1..MaxDim) \X (1..MaxDim) \X (1..MaxDim)

\* The tokens cut into lines of at most width tokens.
RECURSIVE Chunk(_, _)
Chunk(tokens, width) ==
    IF Len(tokens) = 0 THEN <<>>
    ELSE IF Len(tokens) <= width THEN <<tokens>>
    ELSE <<SubSeq(tokens, 1, width)>> \o Chunk(SubSeq(tokens, width + 1, Len(tokens)), width)

\* A section whose terminator stands on a line of its own ...
SectionOwnSlash(kw, dataLines) == <<<<TKw(kw)>>>> \o dataLines \o <<<<TSlash>>>>

\* ... or closes the last data line.
SectionTrailingSlash(kw, dataLines) ==
    IF dataLines = <<>> THEN SectionOwnSlash(kw, dataLines)
    ELSE <<<<TKw(kw)>>>> \o SubSeq(dataLines, 1, Len(dataLines) - 1)
         \o <<Append(dataLines[Len(dataLines)], TSlash)>>

Section(layout, kw, dataLines) ==
    IF layout = "own" THEN SectionOwnSlash(kw, dataLines)
    ELSE SectionTrailingSlash(kw, dataLines)

Layouts == {"own", "trailing"}

\* Pillar (pi, pj) of a geometry: 6 integers.
PillarOf(geom, pi, pj, gz) ==
    CASE geom = "box"  -> <<pi, pj, 0, pi, pj, gz>>
      [] geom = "ramp" -> <<pi, pj, pi + pj, pi + 2, pj + 4, pi + pj + 4>>
      [] geom = "flat" -> <<pi, pj, 0, pi, pj, 0>>

CoordTokens(geom, gx, gy, gz) ==
    LET pillar(p) == PillarOf(geom, (p - 1) % (gx + 1), (p - 1) \div (gx + 1), gz)
    IN  [x \in 1..(6 * (gx + 1) * (gy + 1)) |->
            TInt(pillar(((x - 1) \div 6) + 1)[((x - 1) % 6) + 1])]

\* Depth number p (0-based) of a geometry: the box stacks unit layers, the ramp
\* gives every entry its own depth.
DepthOf(geom, p, gx, gy) ==
    IF geom = "ramp" THEN p ELSE ((p \div (4 * gx * gy)) + 1) \div 2

ZcornTokens(geom, gx, gy, gz) ==
    [x \in 1..(8 * gx * gy * gz) |-> TInt(DepthOf(geom, x - 1, gx, gy))]

SpecgridLines(layout, gx, gy, gz) ==
    Section(layout, "SPECGRID", <<<<TInt(gx), TInt(gy), TInt(gz), TFlag>>>>)

CoordLines(layout, geom, gx, gy, gz) ==
    Section(layout, "COORD", Chunk(CoordTokens(geom, gx, gy, gz), 6 * (gx + 1)))

ZcornLines(layout, geom, gx, gy, gz) ==
    Section(layout, "ZCORN", Chunk(ZcornTokens(geom, gx, gy, gz), 4 * gx * gy))

\* Flag patterns over n cells, written plainly or run-length encoded.
ActnumPatterns == {"ones", "zeros", "firstOff", "lastOff", "even", "odd", "twos"}

PatternFlag(pat, c, n) ==
    CASE pat = "ones"     -> 1
      [] pat = "zeros"    -> 0
      [] pat = "firstOff" -> IF c = 0 THEN 0 ELSE 1
      [] pat = "lastOff"  -> IF c = n - 1 THEN 0 ELSE 1
      [] pat = "even"     -> IF c % 2 = 0 THEN 1 ELSE 0
      [] pat = "odd"      -> c % 2
      [] pat = "twos"     -> 2

PlainActnum(pat, n) == [x \in 1..n |-> TInt(PatternFlag(pat, x - 1, n))]

RleActnum(pat, n) ==
    CASE pat = "ones"     -> <<TRle(n, 1)>>
      [] pat = "zeros"    -> <<TRle(n, 0)>>
      [] pat = "firstOff" -> <<TRle(1, 0), TRle(n - 1, 1)>>
      [] pat = "lastOff"  -> <<TRle(n - 1, 1), TInt(0)>>
      [] OTHER            -> <<>>

\* The ACTNUM sections tried with a complete grid; <<>> is no ACTNUM section at all.
ActnumSections(layout, n) ==
    {<<>>}
    \cup {Section(layout, "ACTNUM", Chunk(PlainActnum(pat, n), 4)) : pat \in ActnumPatterns}
    \cup {Section(layout, "ACTNUM", Chunk(RleActnum(pat, n), 4)) : pat \in ActnumPatterns}

GridFiles ==
    UNION {
        {SpecgridLines(layout, d[1], d[2], d[3])
           \o CoordLines(layout, geom, d[1], d[2], d[3])
           \o ZcornLines(layout, geom, d[1], d[2], d[3])
           \o act : act \in ActnumSections(layout, d[1] * d[2] * d[3])}
        : <<d, geom, layout>> \in Dims \X {"box", "ramp"} \X Layouts }

\* Geometry that is too short or degenerate.
BrokenFiles ==
    UNION {
        LET sg == SpecgridLines("own", d[1], d[2], d[3])
            co == CoordTokens("box", d[1], d[2], d[3])
            zc == ZcornTokens("box", d[1], d[2], d[3])
            act == Section("own", "ACTNUM", <<PlainActnum("firstOff", d[1] * d[2] * d[3])>>)
        IN  { sg \o Section("own", "COORD", <<SubSeq(co, 1, Len(co) - 6)>>)
                 \o Section("own", "ZCORN", <<zc>>) \o act,
              sg \o Section("own", "COORD", <<SubSeq(co, 1, Len(co) - 1)>>)
                 \o Section("own", "ZCORN", <<zc>>),
              sg \o Section("own", "COORD", <<co>>)
                 \o Section("own", "ZCORN", <<SubSeq(zc, 1, Len(zc) - 1)>>) \o act,
              sg \o Section("own", "COORD", <<co>>),
              sg \o CoordLines("own", "flat", d[1], d[2], d[3])
                 \o Section("own", "ZCORN", <<zc>>) }
        : d \in Dims }

\* Two cells stacked on the pillars of the 1x1x2 box: the upper one spans the
\* depths -1..a*10^-7, the lower one b*10^-7..1, so that the face between them
\* lies within 10^-6 of depth 0 on either side.
NearZeroDepths == {-4, 0, 4}

NearZeroZcorn(a, b) ==
    [x \in 1..16 |-> CASE x <= 4  -> TInt(-1)
                       [] x <= 8  -> TMicro(a)
                       [] x <= 12 -> TMicro(b)
                       [] OTHER   -> TInt(1)]

NearZeroFiles ==
    { SpecgridLines("own", 1, 1, 2)
        \o CoordLines("own", "box", 1, 1, 2)
        \o Section("own", "ZCORN", Chunk(NearZeroZcorn(ab[1], ab[2]), 4))
      : ab \in NearZeroDepths \X NearZeroDepths }

\* The grid of the Cartesian generator written out as GRDECL text: its dimensions,
\* its coord array six numbers to a line, its zcorn and its actnum.
NumberText(q) == TInt(q.n)

GeneratedFile(gx, gy, gz) ==
    LET made == createCartesianGRDECL(gx, gy, gz)
        text(arr) == [x \in 1..Len(arr) |-> NumberText(arr[x])]
    IN  SpecgridLines("trailing", gx, gy, gz)
        \o Section("own", "COORD", Chunk(text(made.coord), 6))
        \o Section("own", "ZCORN", Chunk(text(made.zcorn), 4 * gx))
        \o Section("own", "ACTNUM", Chunk(text(made.actnum), gx))

GeneratedFiles == {GeneratedFile(d[1], d[2], d[3]) : d \in Dims}

\* All sequences over alphabet of length 0..maxLen.
RECURSIVE SeqsUpTo(_, _)
SeqsUpTo(alphabet, maxLen) ==
    IF maxLen = 0 THEN {<<>>}
    ELSE LET shorter == SeqsUpTo(alphabet, maxLen - 1)
         IN  shorter \cup {Append(q, a) : <<q, a>> \in shorter \X alphabet}

\* A complete 2x2x1 box around the section under test.
ProbeGeometry ==
    Section("own", "COORD", <<CoordTokens("box", 2, 2, 1)>>)
    \o Section("own", "ZCORN", <<ZcornTokens("box", 2, 2, 1)>>)

ActnumAlphabet ==
    {TInt(v) : v \in 0..1} \cup {TRle(c, v) : <<c, v>> \in (0..MaxCount) \X (0..1)}

ActnumProbes ==
    { SpecgridLines("trailing", 2, 2, 1) \o ProbeGeometry
        \o <<<<TKw("ACTNUM")>>, Append(toks, TSlash)>>
      : toks \in SeqsUpTo(ActnumAlphabet, MaxActnumTokens) }

SpecgridAlphabet == {TInt(1), TInt(2), TFlag, TWord("T")}

SpecgridProbes ==
    { <<<<TKw("SPECGRID")>>, Append(toks, TSlash)>> \o ProbeGeometry
      : toks \in SeqsUpTo(SpecgridAlphabet, MaxSpecgridTokens) }

\* Token p of a COORD probe: every third one a decimal, all different.
CoordProbeToken(p) == IF p % 3 = 0 THEN TDec(p) ELSE TInt(p)

CoordProbes ==
    UNION {
        { SpecgridLines("own", 1, 1, 1)
            \o <<<<TKw("COORD")>>,
                 [x \in 1..cut |-> CoordProbeToken(x)],
                 Append([x \in 1..(m - cut) |-> CoordProbeToken(cut + x)], TSlash)>>
            \o Section("own", "ZCORN", <<ZcornTokens("ramp", 1, 1, 1)>>)
          : cut \in 0..m }
        : m \in 0..MaxCoordTokens }

LayoutAlphabet ==
    { <<TKw("SPECGRID")>>,
      <<TKw("ACTNUM")>>,
      <<TKw("ACTNUM"), TInt(0), TSlash>>,
      <<TKwx("COORD")>>,
      <<TWord("PORO")>>,
      <<TInt(1), TInt(1), TInt(1)>>,
      <<TInt(0), TIntSlash(1)>>,
      <<TSlash>>,
      <<>> }

LayoutProbes == SeqsUpTo(LayoutAlphabet, MaxLines)

\* The 2x1x1 box with its four sections in every order; ACTNUM is written plainly
\* ("0 1"), run-length encoded ("2*1"), or with a zero count only ("0*1").
SectionOrders == {p \in [1..4 -> 1..4] : \A a, b \in 1..4 : p[a] = p[b] => a = b}

PermutedActnum ==
    {<<<<TInt(0), TInt(1)>>>>, <<<<TRle(2, 1)>>>>, <<<<TRle(0, 1)>>>>, <<>>}

PermutedFiles ==
    { LET part == << SpecgridLines(layout, 2, 1, 1),
                     CoordLines(layout, "box", 2, 1, 1),
                     ZcornLines(layout, "box", 2, 1, 1),
                     Section(layout, "ACTNUM", act) >>
      IN  part[p[1]] \o part[p[2]] \o part[p[3]] \o part[p[4]]
      : <<layout, act, p>> \in Layouts \X PermutedActnum \X SectionOrders }

\* The lines of the section kw of a text, from its keyword line to its terminator.
SectionOf(text, kw) ==
    LET first == CHOOSE p \in DOMAIN text :
                    /\ IsKeywordLine(text[p]) /\ KeywordOf(text[p]) = kw
                    /\ \A q \in 1..(p - 1) :
                          ~(IsKeywordLine(text[q]) /\ KeywordOf(text[q]) = kw)
        last == CHOOSE e \in first..Len(text) :
                    /\ EndsWithSlash(text[e])
                    /\ \A q \in first..(e - 1) : ~EndsWithSlash(text[q])
    IN  SubSeq(text, first, last)

\* The same sections in the order SPECGRID, COORD, ZCORN, ACTNUM.
Canonical(text) ==
    SectionOf(text, "SPECGRID") \o SectionOf(text, "COORD")
    \o SectionOf(text, "ZCORN") \o SectionOf(text, "ACTNUM")

\* A section with data that another keyword line supersedes before its terminator.
SupersededFiles ==
    { << <<TKw(first)>>, <<TInt(1), TInt(1), TInt(1)>>, opener, closing >>
      : <<first, opener, closing>> \in
            {"SPECGRID", "ACTNUM"}
            \X {<<TKw("SPECGRID")>>, <<TKw("ACTNUM")>>, <<TKw("ACTNUM"), TInt(0), TSlash>>}
            \X {<<TSlash>>, <<TInt(0), TIntSlash(1)>>, <<TInt(2), TInt(2), TInt(2)>>} }

Files ==
    SupersededFiles \cup GridFiles \cup BrokenFiles \cup NearZeroFiles \cup GeneratedFiles \cup ActnumProbes \cup SpecgridProbes
    \cup CoordProbes \cup LayoutProbes

\* The files the server may answer a fetch with: two complete 1x1x1 grids (one
\* with and one without ACTNUM) and two 2x1x1 grids on which parseGrdecl throws
\* (the last pillar missing, the last depth missing).
LoadFiles ==
    LET sg == SpecgridLines("own", 2, 1, 1)
        co == CoordTokens("box", 2, 1, 1)
        zc == ZcornTokens("box", 2, 1, 1)
        act == Section("own", "ACTNUM", <<PlainActnum("ones", 2)>>)
    IN  { GeneratedFile(1, 1, 1),
          SpecgridLines("own", 1, 1, 1) \o CoordLines("own", "box", 1, 1, 1)
              \o ZcornLines("own", "box", 1, 1, 1),
          sg \o Section("own", "COORD", <<SubSeq(co, 1, Len(co) - 6)>>)
             \o Section("own", "ZCORN", <<zc>>) \o act,
          sg \o Section("own", "COORD", <<co>>)
             \o Section("own", "ZCORN", <<SubSeq(zc, 1, Len(zc) - 1)>>) \o act }

\* The arguments tried with generateGrid(nx, ny, nz).
GenerateDims == {<<1, 1, 1>>, <<2, 1, 1>>}

MaxCommands == 2

\* The locals of parseGrdecl at the start of a call.
FreshLocals ==
    [lineIndex |-> 0, currentSection |-> "", sectionData |-> <<>>,
     specgrid |-> [nx |-> Num(0), ny |-> Num(0), nz |-> Num(0)],
     coord |-> <<>>, zcorn |-> <<>>, actnum |-> <<>>]

\* The lines the command window shows once mounted.
Banner ==
    << [type |-> "output", text |-> "banner"],
       [type |-> "output", text |-> "hint"],
       [type |-> "output", text |-> ""] >>

\* parseGrdecl is called on its own ...
DirectInit ==
    /\ lines \in Files
    /\ pc = "scan"
    /\ caller = "direct"
    /\ pending = {}
    /\ statsText = ""
    /\ loading = FALSE
    /\ outputLines = <<>>

\* ... or twice: on a text with its sections in some order, and then on the same
\* sections in the order SPECGRID, COORD, ZCORN, ACTNUM ...
PermutedInit ==
    /\ lines \in PermutedFiles
    /\ pc = "scan"
    /\ caller = "permuted"
    /\ pending = {}
    /\ statsText = ""
    /\ loading = FALSE
    /\ outputLines = <<>>

\* ... or by the grdecl page, which starts loading its file when mounted, with the
\* command window beside it.
PageInit ==
    /\ lines = <<>>
    /\ pc = "idle"
    /\ caller = ""
    /\ pending = {"page"}
    /\ statsText = "loading"
    /\ loading = TRUE
    /\ outputLines = Banner

\* The locals of parseGrdecl and the state of the page, the workspace and the command
\* window before anything has run.
Fresh ==
    /\ error = ""
    /\ lineIndex = FreshLocals.lineIndex
    /\ currentSection = FreshLocals.currentSection
    /\ sectionData = FreshLocals.sectionData
    /\ specgrid = FreshLocals.specgrid
    /\ coord = FreshLocals.coord
    /\ zcorn = FreshLocals.zcorn
    /\ actnum = FreshLocals.actnum
    /\ k = 0
    /\ j = 0
    /\ i = 0
    /\ allVertices = <<>>
    /\ cellVertices = <<>>
    /\ vertexMap = <<>>
    /\ vertexIndex = 0
    /\ activeCellCount = 0
    /\ grdeclData = <<>>
    /\ grid = <<>>
    /\ fileContent = <<>>
    /\ grids = <<>>
    /\ activeGrid = <<>>
    /\ isExecuting = FALSE
    /\ executed = 0
    /\ completed = <<>>
    /\ visualization = DefaultVisualization
    /\ invoked = <<>>

Init ==
    /\ (DirectInit \/ PermutedInit \/ PageInit)
    /\ Fresh
    /\ HistoryFresh
    /\ NotWaiting

(***************************************************************************)
(* parseGrdecl: the section scan, one line per step.                       *)
(***************************************************************************)
Scanning == pc = "scan" /\ lineIndex < Len(lines)

CurrentLine == lines[lineIndex + 1]

\* Mutant of ScanKeyword: the lines collected for the superseded section are kept.
ScanKeywordKeepingData ==
    /\ Scanning
    /\ IsKeywordLine(CurrentLine)
    /\ currentSection' = KeywordOf(CurrentLine)
    /\ sectionData' = sectionData
    /\ lineIndex' = lineIndex + 1
    /\ UNCHANGED appVars
    /\ UNCHANGED <<lines, pc, error, specgrid, coord, zcorn, actnum, cellVars>>

\* A keyword line opens its section and drops what was collected.
ScanKeyword ==
    /\ Scanning
    /\ IsKeywordLine(CurrentLine)
    /\ currentSection' = KeywordOf(CurrentLine)
    /\ sectionData' = <<>>
    /\ lineIndex' = lineIndex + 1
    /\ UNCHANGED appVars
    /\ UNCHANGED <<lines, pc, error, specgrid, coord, zcorn, actnum, cellVars>>

\* Mutant of ClosingData: the data before the slash is dropped.
ClosingDataDropped(line) == sectionData

\* The section data handed to the parser by an end-marker line.
ClosingData(line) ==
    IF line # <<TSlash>> /\ currentSection # "" /\ dataBeforeSlash(line) # <<>>
    THEN Append(sectionData, dataBeforeSlash(line))
    ELSE sectionData

\* An end-marker line parses the open section and closes it.
ScanEnd ==
    /\ Scanning
    /\ ~IsKeywordLine(CurrentLine)
    /\ EndsWithSlash(CurrentLine)
    /\ LET data == ClosingData(CurrentLine)
       IN  /\ specgrid' = IF currentSection = "SPECGRID"
                           THEN parseSpecgrid(data) ELSE specgrid
           /\ coord' = IF currentSection = "COORD" THEN parseCoord(data) ELSE coord
           /\ zcorn' = IF currentSection = "ZCORN" THEN parseZcorn(data) ELSE zcorn
           /\ actnum' = IF currentSection = "ACTNUM"
                         THEN parseActnum(data, specgrid) ELSE actnum
    /\ currentSection' = ""
    /\ sectionData' = <<>>
    /\ lineIndex' = lineIndex + 1
    /\ UNCHANGED appVars
    /\ UNCHANGED <<lines, pc, error, cellVars>>

\* Any other non-empty line is collected while a section is open.
ScanData ==
    /\ Scanning
    /\ ~IsKeywordLine(CurrentLine)
    /\ ~EndsWithSlash(CurrentLine)
    /\ currentSection # ""
    /\ Len(CurrentLine) > 0
    /\ sectionData' = Append(sectionData, CurrentLine)
    /\ lineIndex' = lineIndex + 1
    /\ UNCHANGED appVars
    /\ UNCHANGED <<lines, pc, error, currentSection, specgrid, coord, zcorn, actnum,
                   cellVars>>

\* ... and skipped otherwise.
ScanSkip ==
    /\ Scanning
    /\ ~IsKeywordLine(CurrentLine)
    /\ ~EndsWithSlash(CurrentLine)
    /\ (currentSection = "" \/ Len(CurrentLine) = 0)
    /\ lineIndex' = lineIndex + 1
    /\ UNCHANGED appVars
    /\ UNCHANGED <<lines, pc, error, currentSection, sectionData, specgrid, coord,
                   zcorn, actnum, cellVars>>

\* After the last line parseGrdecl calls generateCellVertices, whose locals start empty.
BeginCells ==
    /\ pc = "scan"
    /\ lineIndex = Len(lines)
    /\ pc' = "cells"
    /\ k' = 0
    /\ j' = 0
    /\ i' = 0
    /\ allVertices' = <<>>
    /\ cellVertices' = <<>>
    /\ vertexMap' = <<>>
    /\ vertexIndex' = 0
    /\ activeCellCount' = 0
    /\ UNCHANGED appVars
    /\ UNCHANGED <<lines, error, scanVars>>

(***************************************************************************)
(* generateCellVertices: one cell of the loop nest per step.               *)
(***************************************************************************)
\* The loop nest runs some cell only if all three bounds compare above 0.
HasCells ==
    /\ Less(Num(0), specgrid.nx)
    /\ Less(Num(0), specgrid.ny)
    /\ Less(Num(0), specgrid.nz)

CellPending == pc = "cells" /\ HasCells /\ Less(Num(k), specgrid.nz)

nx == specgrid.nx.n

ny == specgrid.ny.n

nz == specgrid.nz.n

cellIdx == i + j * nx + k * nx * ny

\* i++, then j++ and k++ as the inner loops run out.
Advance ==
    IF i + 1 < nx THEN /\ i' = i + 1
                       /\ UNCHANGED <<j, k>>
    ELSE IF j + 1 < ny THEN /\ i' = 0
                            /\ j' = j + 1
                            /\ UNCHANGED k
    ELSE /\ i' = 0
         /\ j' = 0
         /\ k' = k + 1

\* zcorn[zcornOffset + ...] for corner c of the current cell
CornerDepth(c) == At(zcorn, zcornOffset(nx, ny, i, j, k) + CornerOffset(nx, ny, c))

\* The index into coord of the pillar of corner c of the current cell
CornerPillarIndex(c) ==
    getPillarIndex(nx, i + CornerPillar(c)[1], j + CornerPillar(c)[2])

\* c0..c7 of the current cell
cellVerts ==
    [c \in 1..8 |-> interpolatePillar(coord[CornerPillarIndex(c - 1) + 1],
                                       CornerDepth(c - 1))]

PillarsPresent == \A c \in 0..3 : CornerPillarIndex(c) < Len(coord)

DepthsPresent == \A c \in 0..7 : CornerDepth(c) # Undefined

Pool == [allVertices |-> allVertices, vertexMap |-> vertexMap, vertexIndex |-> vertexIndex]

SetPool(pool) ==
    /\ allVertices' = pool.allVertices
    /\ vertexMap' = pool.vertexMap
    /\ vertexIndex' = pool.vertexIndex

\* Mutant of CellInactive: the inactive cell is counted as well.
CellInactiveCounted ==
    /\ CellPending
    /\ IsZero(At(actnum, cellIdx))
    /\ cellVertices' = Append(cellVertices, <<>>)
    /\ activeCellCount' = activeCellCount + 1
    /\ Advance
    /\ UNCHANGED appVars
    /\ UNCHANGED <<lines, pc, error, scanVars, allVertices, vertexMap, vertexIndex>>

\* Mutant of CellInactive: no slot is stored for the inactive cell.
CellInactiveWithoutSlot ==
    /\ CellPending
    /\ IsZero(At(actnum, cellIdx))
    /\ Advance
    /\ UNCHANGED appVars
    /\ UNCHANGED <<lines, pc, error, scanVars, allVertices, cellVertices, vertexMap,
                   vertexIndex, activeCellCount>>

\* Skip inactive cells: an empty slot.
CellInactive ==
    /\ CellPending
    /\ IsZero(At(actnum, cellIdx))
    /\ cellVertices' = Append(cellVertices, <<>>)
    /\ Advance
    /\ UNCHANGED appVars
    /\ UNCHANGED <<lines, pc, error, scanVars, allVertices, vertexMap, vertexIndex,
                   activeCellCount>>

\* An active cell: its 8 corners are stored and registered in the pool.
CellActive ==
    /\ CellPending
    /\ ~IsZero(At(actnum, cellIdx))
    /\ PillarsPresent
    /\ DepthsPresent
    /\ activeCellCount' = activeCellCount + 1
    /\ cellVertices' = Append(cellVertices, cellVerts)
    /\ SetPool(AddVertices(Pool, cellVerts, 8))
    /\ Advance
    /\ UNCHANGED appVars
    /\ UNCHANGED <<lines, pc, error, scanVars>>

\* coord[...] is undefined: destructuring it in interpolatePillar throws.
CellThrowPillar ==
    /\ CellPending
    /\ ~IsZero(At(actnum, cellIdx))
    /\ ~PillarsPresent
    /\ activeCellCount' = activeCellCount + 1
    /\ pc' = "threw"
    /\ error' = "TypeError"
    /\ UNCHANGED appVars
    /\ UNCHANGED <<lines, scanVars, k, j, i, allVertices, cellVertices, vertexMap,
                   vertexIndex>>

\* zcorn[...] is undefined: z.toFixed throws in addVertex at the first such corner.
CellThrowDepth ==
    /\ CellPending
    /\ ~IsZero(At(actnum, cellIdx))
    /\ PillarsPresent
    /\ ~DepthsPresent
    /\ LET first == CHOOSE c \in 0..7 :
                        /\ CornerDepth(c) = Undefined
                        /\ \A b \in 0..(c - 1) : CornerDepth(b) # Undefined
       IN  SetPool(AddVertices(Pool, cellVerts, first))
    /\ activeCellCount' = activeCellCount + 1
    /\ cellVertices' = Append(cellVertices, cellVerts)
    /\ pc' = "threw"
    /\ error' = "TypeError"
    /\ UNCHANGED appVars
    /\ UNCHANGED <<lines, scanVars, k, j, i>>

\* The loop nest is over: the result is returned.
Return ==
    /\ pc = "cells"
    /\ ~CellPending
    /\ pc' = "done"
    /\ UNCHANGED appVars
    /\ UNCHANGED <<lines, error, scanVars, cellVars>>

(***************************************************************************)
(* The callers of parseGrdecl: loadGrdeclData of the grdecl page           *)
(* (src/src/routes/grdecl/+page.svelte), and executeCommand of the command *)
(* window with the registry functions loadGRDECL and generateGrid          *)
(* (src/src/lib/command/functionRegistry.ts).  A handler is suspended      *)
(* while it awaits its fetch; everything between two awaits is one step,   *)
(* except parseGrdecl, which runs as above and is never interleaved.       *)
(***************************************************************************)
\* What parseGrdecl returns.
Result ==
    [specgrid |-> specgrid, coord |-> coord, zcorn |-> zcorn, actnum |-> actnum,
     cells |-> [num |-> activeCellCount, vertices |-> allVertices,
                cellVertices |-> cellVertices]]

\* How the call ended: the value returned or the exception thrown.
Outcome == IF pc = "done" THEN <<"returned", Result>> ELSE <<"threw", error>>

\* Mutant of CallParse: the section arrays of the previous call are kept.
CallParseKeepingSections(file, who) ==
    /\ lines' = file
    /\ pc' = "scan"
    /\ caller' = who
    /\ error' = ""
    /\ lineIndex' = FreshLocals.lineIndex
    /\ currentSection' = FreshLocals.currentSection
    /\ sectionData' = FreshLocals.sectionData
    /\ UNCHANGED <<specgrid, coord, zcorn, actnum>>
    /\ UNCHANGED cellVars

\* parseGrdecl(file) is entered: its locals are declared afresh.
CallParse(file, who) ==
    /\ lines' = file
    /\ pc' = "scan"
    /\ caller' = who
    /\ error' = ""
    /\ lineIndex' = FreshLocals.lineIndex
    /\ currentSection' = FreshLocals.currentSection
    /\ sectionData' = FreshLocals.sectionData
    /\ specgrid' = FreshLocals.specgrid
    /\ coord' = FreshLocals.coord
    /\ zcorn' = FreshLocals.zcorn
    /\ actnum' = FreshLocals.actnum
    /\ UNCHANGED cellVars

\* The call is over: control is back in the caller; the history keeps the outcome
\* of the first call on each text.
LeaveParse ==
    /\ pc' = "idle"
    /\ caller' = ""
    /\ completed' = IF lines \in DOMAIN completed THEN completed
                    ELSE completed @@ (lines :> Outcome)
    /\ UNCHANGED <<lines, error, scanVars, cellVars>>

Idle == pc = "idle"

addOutputLine(out, type, text) == Append(out, [type |-> type, text |-> text])

\* workspaceManager.addGrid(name, data)
addGrid(name, data) ==
    /\ grids' = (name :> data) @@ grids
    /\ activeGrid' = IF activeGrid = <<>> \/ activeGrid = <<"">> THEN <<name>>
                     ELSE activeGrid

\* handleGridUpdate(newGrid) of the page, for a grid with a specgrid.
handleGridUpdate(newGrid) ==
    /\ grid' = <<newGrid>>
    /\ grdeclData' = <<newGrid>>
    /\ statsText' = "grid"
    /\ UNCHANGED <<fileContent, loading>>

\* loadGrdeclData: the response is not ok, or fetch rejects.
PageFetchFailed ==
    /\ Idle /\ "page" \in pending
    /\ pending' = pending \ {"page"}
    /\ statsText' = "error"
    /\ loading' = FALSE
    /\ UNCHANGED <<lines, pc, error, scanVars, cellVars, caller, grdeclData, grid,
                   fileContent, grids, activeGrid, outputLines, isExecuting, executed,
                   completed>>
    /\ UNCHANGED shellVars

\* loadGrdeclData: the text has arrived; it is stored for the file viewer and parsed.
PageFetched ==
    /\ Idle /\ "page" \in pending
    /\ pending' = pending \ {"page"}
    /\ \E file \in LoadFiles :
          /\ fileContent' = file
          /\ CallParse(file, "page")
    /\ statsText' = "parsing"
    /\ UNCHANGED <<grdeclData, grid, loading, grids, activeGrid, outputLines,
                   isExecuting, executed, completed>>
    /\ UNCHANGED shellVars

\* loadGrdeclData: parseGrdecl has returned.
PageParsed ==
    /\ pc = "done" /\ caller = "page"
    /\ grdeclData' = <<Result>>
    /\ statsText' = "grid"
    /\ loading' = FALSE
    /\ LeaveParse
    /\ UNCHANGED <<pending, grid, fileContent, grids, activeGrid, outputLines,
                   isExecuting, executed>>
    /\ UNCHANGED shellVars

\* Mutant of PageParseThrew: the page takes over what had been built when
\* parseGrdecl threw.
PageParseThrewStoring ==
    /\ pc = "threw" /\ caller = "page"
    /\ grdeclData' = <<Result>>
    /\ statsText' = "error"
    /\ loading' = FALSE
    /\ LeaveParse
    /\ UNCHANGED <<pending, grid, fileContent, grids, activeGrid, outputLines,
                   isExecuting, executed>>
    /\ UNCHANGED shellVars

\* loadGrdeclData: parseGrdecl has thrown; the catch block shows the message.
PageParseThrew ==
    /\ pc = "threw" /\ caller = "page"
    /\ statsText' = "error"
    /\ loading' = FALSE
    /\ LeaveParse
    /\ UNCHANGED <<pending, grdeclData, grid, fileContent, grids, activeGrid,
                   outputLines, isExecuting, executed>>
    /\ UNCHANGED shellVars

CanExecute == Idle /\ ~isExecuting /\ caller # "direct" /\ executed < MaxCommands

\* executeCommand with loadGRDECL("path"), up to the fetch of loadGRDECL.
ExecuteLoad ==
    /\ CanExecute
    /\ outputLines' = addOutputLine(outputLines, "command", "loadGRDECL")
    /\ isExecuting' = TRUE
    /\ pending' = pending \cup {"command"}
    /\ executed' = executed + 1
    /\ UNCHANGED <<lines, pc, error, scanVars, cellVars, caller, pageVars, grids,
                   activeGrid, completed>>
    /\ AddToHistory(<<"loadGRDECL">>)
    /\ UNCHANGED <<visualization, invoked, wasmVars>>

\* loadGRDECL: the response is not ok, or fetch rejects: success = false, and
\* executeCommand shows the error.
CommandFetchFailed ==
    /\ Idle /\ "command" \in pending
    /\ pending' = pending \ {"command"}
    /\ outputLines' = addOutputLine(addOutputLine(outputLines, "error", "Failed to load GRDECL"),
                                    "output", "")
    /\ isExecuting' = FALSE
    /\ UNCHANGED <<lines, pc, error, scanVars, cellVars, caller, pageVars, grids,
                   activeGrid, executed, completed>>
    /\ UNCHANGED shellVars

\* loadGRDECL: the text has arrived and is parsed.
CommandFetched ==
    /\ Idle /\ "command" \in pending
    /\ pending' = pending \ {"command"}
    /\ \E file \in LoadFiles : CallParse(file, "command")
    /\ UNCHANGED <<pageVars, grids, activeGrid, outputLines, isExecuting, executed,
                   completed>>
    /\ UNCHANGED shellVars

\* loadGRDECL: parseGrdecl has returned: the grid is stored, success = true, and
\* executeCommand shows the output and hands the grid to the page.
CommandParsed ==
    /\ pc = "done" /\ caller = "command"
    /\ addGrid("loadedGrid", Result)
    /\ outputLines' = addOutputLine(addOutputLine(outputLines, "output", "GRDECL loaded"),
                                    "output", "")
    /\ handleGridUpdate(Result)
    /\ isExecuting' = FALSE
    /\ LeaveParse
    /\ UNCHANGED <<pending, executed>>
    /\ UNCHANGED shellVars

\* loadGRDECL: parseGrdecl has thrown: success = false, and executeCommand shows
\* the error.
CommandParseThrew ==
    /\ pc = "threw" /\ caller = "command"
    /\ outputLines' = addOutputLine(addOutputLine(outputLines, "error", "Failed to load GRDECL"),
                                    "output", "")
    /\ isExecuting' = FALSE
    /\ LeaveParse
    /\ UNCHANGED <<pending, pageVars, grids, activeGrid, executed>>
    /\ UNCHANGED shellVars

\* executeCommand with generateGrid(nx, ny, nz).
ExecuteGenerate ==
    /\ CanExecute
    /\ \E d \in GenerateDims :
          LET made == createCartesianGRDECL(d[1], d[2], d[3])
          IN  /\ addGrid("grid1", made)
              /\ handleGridUpdate(made)
    /\ outputLines' =
          addOutputLine(addOutputLine(addOutputLine(outputLines, "command", "generateGrid"),
                                      "output", "Grid generated"),
                        "output", "")
    /\ executed' = executed + 1
    /\ UNCHANGED <<lines, pc, error, scanVars, cellVars, caller, pending, isExecuting,
                   completed>>
    /\ AddToHistory(<<"generateGrid">>)
    /\ UNCHANGED <<visualization, invoked, wasmVars>>

\* The call on the permuted text is over: its outcome is kept, and parseGrdecl is
\* called on the sections in the usual order.
ParseCanonical ==
    /\ pc \in {"done", "threw"} /\ caller = "permuted"
    /\ completed' = completed @@ (lines :> Outcome)
    /\ CallParse(Canonical(lines), "canonical")
    /\ UNCHANGED <<pending, pageVars, grids, activeGrid, outputLines, isExecuting,
                   executed>>
    /\ UNCHANGED shellVars

Next ==
    \/ ScanKeyword
    \/ ScanEnd
    \/ ScanData
    \/ ScanSkip
    \/ BeginCells
    \/ CellInactive
    \/ CellActive
    \/ CellThrowPillar
    \/ CellThrowDepth
    \/ Return
    \/ PageFetchFailed
    \/ PageFetched
    \/ PageParsed
    \/ PageParseThrew
    \/ ExecuteLoad
    \/ CommandFetchFailed
    \/ CommandFetched
    \/ CommandParsed
    \/ CommandParseThrew
    \/ ExecuteGenerate
    \/ ParseCanonical

Spec == Init /\ [][Next]_vars

(***************************************************************************)
(* commandInterpreter.  An input is a string written as the sequence of its *)
(* pieces: a space, a bracket, a comma, an identifier, a number literal, a  *)
(* quoted string, or another character.                                     *)
(***************************************************************************)
\* The pieces that match [a-zA-Z_][a-zA-Z0-9_]*
Identifiers ==
    {"generateGrid", "loadGRDECL", "setWireframe", "setEdges", "setColormap", "setView",
     "resetCamera", "clear", "help", "listGrids", "nosuch", "true", "false", "null",
     "undefined", "jet"}

\* The pieces that match -?\d+\.?\d*, with Number(piece)
NumberLiterals == ("1" :> 1) @@ ("2" :> 2)

\* The quoted pieces, with the text between the quotes
QuotedLiterals == ("\"jet\"" :> "jet") @@ ("'a'" :> "a") @@ ("\"help\"" :> "help")

\* A parsed argument: its typeof, and its literal text (for a string, the text
\* between the quotes).
Value(type, v) == [type |-> type, v |-> v]

\* The text a sequence of pieces spells, as far as the registry functions tell texts
\* apart: a single piece is its own text.
TextOf(pieces) == IF Len(pieces) = 1 THEN pieces[1] ELSE "other"

\* ArgumentParser.parseValue, and typeof of what it returns
parseValue(value) ==
    IF value = <<"true">> THEN Value("boolean", "true")
    ELSE IF value = <<"false">> THEN Value("boolean", "false")
    ELSE IF value = <<"null">> THEN Value("object", "null")
    ELSE IF value = <<"undefined">> THEN Value("undefined", "undefined")
    ELSE IF Len(value) = 1 /\ value[1] \in DOMAIN NumberLiterals
         THEN Value("number", value[1])
    ELSE IF Len(value) = 1 /\ value[1] \in DOMAIN QuotedLiterals
         THEN Value("string", QuotedLiterals[value[1]])
    ELSE IF Len(value) >= 2 /\ value[1] = "[" /\ value[Len(value)] = "]"
         THEN Value("object", "array")
    ELSE Value("string", IF value = <<>> THEN "" ELSE TextOf(value))

\* The loop of ArgumentParser.parseArguments from piece idx on.
RECURSIVE splitArguments(_, _, _, _, _)
splitArguments(argsString, idx, currentArg, parenDepth, args) ==
    IF idx > Len(argsString)
    THEN IF trim(currentArg) # <<>> THEN Append(args, parseValue(trim(currentArg)))
         ELSE args
    ELSE LET char == argsString[idx]
         IN  IF char \in {"(", "["}
             THEN splitArguments(argsString, idx + 1, Append(currentArg, char),
                                 parenDepth + 1, args)
             ELSE IF char \in {")", "]"}
             THEN splitArguments(argsString, idx + 1, Append(currentArg, char),
                                 parenDepth - 1, args)
             ELSE IF char = "," /\ parenDepth = 0
             THEN splitArguments(argsString, idx + 1, <<>>, parenDepth,
                                 Append(args, parseValue(trim(currentArg))))
             ELSE splitArguments(argsString, idx + 1, Append(currentArg, char),
                                 parenDepth, args)

\* ArgumentParser.parseArguments
parseArguments(argsString) ==
    IF trim(argsString) = <<>> THEN <<>>
    ELSE splitArguments(argsString, 1, <<>>, 0, <<>>)

\* The position of the first piece after the identifier that is not a space.
RECURSIVE afterSpaces(_, _)
afterSpaces(text, idx) ==
    IF idx <= Len(text) /\ text[idx] = " " THEN afterSpaces(text, idx + 1) ELSE idx

\* ArgumentParser.parseCommand: <<>> for null, else <<[functionName, args]>>
parseCommand(input) ==
    LET text == trim(input)
        open == afterSpaces(text, 2)
    IN  IF text = <<>> \/ text[1] \notin Identifiers THEN <<>>
        ELSE IF open < Len(text) /\ text[open] = "(" /\ text[Len(text)] = ")"
        THEN << [functionName |-> text[1],
                 args |-> parseArguments(SubSeq(text, open + 1, Len(text) - 1))] >>
        ELSE IF Len(text) = 1 THEN << [functionName |-> text[1], args |-> <<>>] >>
        ELSE <<>>

Param(name, type, optional) == [name |-> name, type |-> type, optional |-> optional]

\* registerAllFunctions: the parameters of each signature
signatures ==
    [generateGrid |-> <<Param("nx", "number", FALSE), Param("ny", "number", FALSE),
                        Param("nz", "number", FALSE)>>,
     loadGRDECL   |-> <<Param("filepath", "string", FALSE)>>,
     setWireframe |-> <<Param("enabled", "boolean", FALSE)>>,
     setEdges     |-> <<Param("enabled", "boolean", FALSE)>>,
     setColormap  |-> <<Param("name", "string", FALSE)>>,
     setView      |-> <<Param("view", "string", FALSE)>>,
     resetCamera  |-> <<>>,
     clear        |-> <<>>,
     help         |-> <<Param("functionName", "string", TRUE)>>,
     listGrids    |-> <<>>]

\* functionRegistry.has(name)
has(name) == name \in DOMAIN signatures

\* validateArguments without its loop over the types.
validateArgumentsByCount(args, expectedParams) ==
    LET requiredParams == SelectSeq(expectedParams, LAMBDA q : ~q.optional)
    IN  IF Len(args) < Len(requiredParams) THEN "Expected at least"
        ELSE IF Len(args) > Len(expectedParams) THEN "Expected at most"
        ELSE ""

\* ArgumentParser.validateArguments: "" when valid, else the error
validateArguments(args, expectedParams) ==
    LET requiredParams == SelectSeq(expectedParams, LAMBDA q : ~q.optional)
        wrong == {a \in 1..Len(args) :
                     /\ expectedParams[a].type \in {"number", "string", "boolean"}
                     /\ args[a].type # expectedParams[a].type}
    IN  IF Len(args) < Len(requiredParams) THEN "Expected at least"
        ELSE IF Len(args) > Len(expectedParams) THEN "Expected at most"
        ELSE IF wrong # {} THEN "must be a " \o expectedParams[CHOOSE a \in wrong :
                                      \A b \in wrong : a <= b].type
        ELSE ""

\* A CommandResult, as far as the command window reads it.
Success(output) == [kind |-> "result", success |-> TRUE, output |-> output, error |-> ""]

Failure(message) == [kind |-> "result", success |-> FALSE, output |-> "", error |-> message]

\* Mutant of Checks: the types are checked for generateGrid only.
ChecksSkippingTypes(input) ==
    LET parsed == parseCommand(input)
    IN  IF parsed = <<>> THEN "Invalid command syntax"
        ELSE IF ~has(parsed[1].functionName) THEN "Unknown function"
        ELSE IF parsed[1].functionName = "generateGrid"
        THEN validateArguments(parsed[1].args, signatures[parsed[1].functionName])
        ELSE validateArgumentsByCount(parsed[1].args, signatures[parsed[1].functionName])

\* The checks of execute before the function is called: "" when they pass.
Checks(input) ==
    LET parsed == parseCommand(input)
    IN  IF parsed = <<>> THEN "Invalid command syntax"
        ELSE IF ~has(parsed[1].functionName) THEN "Unknown function"
        ELSE validateArguments(parsed[1].args, signatures[parsed[1].functionName])

\* execute resolves with a result.
Resolve(input, result) == returned' = CallReturned("execute", Str(input), result)

\* What loadGRDECL can end with: the fetch or the parse fails, or a grid is loaded.
LoadOutcomes == {<<>>} \cup {<<g>> : g \in {createCartesianGRDECL(1, 1, 1)}}

\* fn(...args) of the registry
Invoke(input, fn, args) ==
    \/ /\ fn = "generateGrid"
       /\ addGrid("grid1", createCartesianGRDECL(NumberLiterals[args[1].v],
                                                 NumberLiterals[args[2].v],
                                                 NumberLiterals[args[3].v]))
       /\ Resolve(input, Success("Grid generated"))
       /\ UNCHANGED visualization
    \/ /\ fn = "loadGRDECL"
       /\ \E outcome \in LoadOutcomes :
             IF outcome = <<>>
             THEN /\ Resolve(input, Failure("Failed to load GRDECL"))
                  /\ UNCHANGED <<grids, activeGrid>>
             ELSE /\ addGrid("loadedGrid", outcome[1])
                  /\ Resolve(input, Success("GRDECL loaded"))
       /\ UNCHANGED visualization
    \/ /\ fn = "setWireframe"
       /\ visualization' = [visualization EXCEPT !.showWireframe = (args[1].v = "true")]
       /\ Resolve(input, Success("Wireframe"))
       /\ UNCHANGED <<grids, activeGrid>>
    \/ /\ fn = "setEdges"
       /\ visualization' = [visualization EXCEPT !.showEdges = (args[1].v = "true")]
       /\ Resolve(input, Success("Edges"))
       /\ UNCHANGED <<grids, activeGrid>>
    \/ /\ fn = "setColormap"
       /\ IF args[1].v \in {"jet", "viridis", "plasma", "cool"}
          THEN /\ visualization' = [visualization EXCEPT !.colormap = args[1].v]
               /\ Resolve(input, Success("Colormap set"))
          ELSE /\ Resolve(input, Failure("Invalid colormap"))
               /\ UNCHANGED visualization
       /\ UNCHANGED <<grids, activeGrid>>
    \/ /\ fn = "setView"
       /\ IF args[1].v \in {"default", "top", "side", "front"}
          THEN /\ visualization' = [visualization EXCEPT !.cameraView = args[1].v]
               /\ Resolve(input, Success("Camera view set"))
          ELSE /\ Resolve(input, Failure("Invalid view"))
               /\ UNCHANGED visualization
       /\ UNCHANGED <<grids, activeGrid>>
    \/ /\ fn = "resetCamera"
       /\ Resolve(input, Success("Camera reset"))
       /\ UNCHANGED <<grids, activeGrid, visualization>>
    \/ /\ fn = "clear"
       /\ grids' = <<>>
       /\ activeGrid' = <<>>
       /\ visualization' = DefaultVisualization
       /\ Resolve(input, Success("Workspace cleared"))
    \/ /\ fn = "help"
       /\ Resolve(input, IF args # <<>> /\ args[1].v # "" /\ ~has(args[1].v)
                        THEN Failure("Unknown function") ELSE Success("help"))
       /\ UNCHANGED <<grids, activeGrid, visualization>>
    \/ /\ fn = "listGrids"
       /\ Resolve(input, Success(IF DOMAIN grids = {} THEN "No grids in workspace"
                                ELSE "Grids in workspace"))
       /\ UNCHANGED <<grids, activeGrid, visualization>>

\* The call the last execute made.
Call(fn, args) == [functionName |-> fn, args |-> args]

\* commandInterpreter.execute(input)
executeInput(input) ==
    LET parsed == parseCommand(input)
    IN  IF Checks(input) = ""
        THEN /\ invoked' = <<Call(parsed[1].functionName, parsed[1].args)>>
             /\ Invoke(input, parsed[1].functionName, parsed[1].args)
        ELSE /\ Resolve(input, Failure(Checks(input)))
             /\ invoked' = <<>>
             /\ UNCHANGED <<grids, activeGrid, visualization>>

(***************************************************************************)
(* commandHistory on its own: any sequence of add, navigateUp, navigateDown *)
(* and clear on the singleton, constructed over what localStorage holds.    *)
(***************************************************************************)
MaxAccepted == 102

HistoryCommands == {<<"a">>, <<"b">>, <<>>, <<" ">>, <<" ", " ">>}

\* What an earlier session can have left in localStorage.
StoredLists == {<<>>, << <<"a">> >>, << <<"b">>, <<"a">> >>}

Stores ==
    {[available |-> FALSE, item |-> <<>>], [available |-> TRUE, item |-> <<>>]}
    \cup {[available |-> TRUE, item |-> <<list>>] : list \in StoredLists}

\* Nothing but the module's singletons exists: no page is mounted, no call is running.
Unmounted ==
    /\ lines = <<>>
    /\ pc = "idle"
    /\ caller = ""
    /\ pending = {}
    /\ statsText = ""
    /\ loading = FALSE
    /\ outputLines = <<>>
    /\ Fresh

\* constructor(): loadFromStorage()
loadFromStorage ==
    IF stored.available /\ stored.item # <<>>
    THEN /\ commands = stored.item[1]
         /\ currentIndex = Len(stored.item[1])
    ELSE /\ commands = <<>>
         /\ currentIndex = -1

HistoryInit ==
    /\ Unmounted
    /\ NotWaiting
    /\ stored \in Stores
    /\ loadFromStorage
    /\ returned = CallReturned("", Null, Null)
    /\ accepted = commands

restOfHistory ==
    <<lines, pc, error, scanVars, cellVars, caller, pending, pageVars, grids, activeGrid,
      outputLines, isExecuting, executed, completed, visualization, invoked, wasmVars>>

HistoryAdd ==
    /\ Len(accepted) < MaxAccepted
    /\ \E command \in HistoryCommands : AddToHistory(command)
    /\ UNCHANGED restOfHistory

\* Mutant of navigateUp: the index is decremented without the test for the oldest.
navigateUpPastOldest ==
    /\ IF commands = <<>>
       THEN /\ returned' = CallReturned("navigateUp", Null, Null)
            /\ UNCHANGED currentIndex
       ELSE /\ currentIndex' = currentIndex - 1
            /\ returned' = CallReturned("navigateUp", Null, elementAt(commands, currentIndex'))
    /\ UNCHANGED <<commands, stored, accepted>>
    /\ UNCHANGED restOfHistory

navigateUp ==
    /\ IF commands = <<>>
       THEN /\ returned' = CallReturned("navigateUp", Null, Null)
            /\ UNCHANGED currentIndex
       ELSE /\ currentIndex' = (IF currentIndex > 0 THEN currentIndex - 1 ELSE 0)
            /\ returned' = CallReturned("navigateUp", Null, elementAt(commands, currentIndex'))
    /\ UNCHANGED <<commands, stored, accepted>>
    /\ UNCHANGED restOfHistory

navigateDown ==
    /\ IF commands = <<>>
       THEN /\ returned' = CallReturned("navigateDown", Null, Null)
            /\ UNCHANGED currentIndex
       ELSE IF currentIndex < Len(commands) - 1
       THEN /\ currentIndex' = currentIndex + 1
            /\ returned' = CallReturned("navigateDown", Null, elementAt(commands, currentIndex'))
       ELSE /\ currentIndex' = Len(commands)
            /\ returned' = CallReturned("navigateDown", Null, Str(<<>>))
    /\ UNCHANGED <<commands, stored, accepted>>
    /\ UNCHANGED restOfHistory

clear ==
    /\ commands' = <<>>
    /\ currentIndex' = -1
    /\ stored' = saveToStorage(<<>>)
    /\ returned' = CallReturned("clear", Null, Null)
    /\ accepted' = <<>>
    /\ UNCHANGED restOfHistory

HistoryNext ==
    \/ HistoryAdd
    \/ navigateUp
    \/ navigateDown
    \/ clear

HistorySpec == HistoryInit /\ [][HistoryNext]_vars

(***************************************************************************)
(* workspaceManager on its own: any sequence of addGrid, removeGrid,        *)
(* setActiveGrid and clearWorkspace on the singleton.                       *)
(***************************************************************************)
GridNames == {"", "a", "b"}

GridValues == {createCartesianGRDECL(d[1], d[2], d[3]) : d \in GenerateDims}

restOfWorkspace ==
    <<lines, pc, error, scanVars, cellVars, caller, pending, pageVars, outputLines,
      isExecuting, executed, completed, commands, currentIndex, stored, accepted,
      invoked, wasmVars>>

WorkspaceInit ==
    /\ Unmounted
    /\ HistoryFresh
    /\ NotWaiting

WorkspaceAddGrid ==
    /\ \E name \in GridNames, data \in GridValues :
          /\ addGrid(name, data)
          /\ returned' = CallReturned("addGrid", Str(name), Null)
    /\ UNCHANGED visualization
    /\ UNCHANGED restOfWorkspace

removeGrid ==
    /\ \E name \in GridNames :
          /\ grids' = [n \in DOMAIN grids \ {name} |-> grids[n]]
          /\ activeGrid' = IF activeGrid = <<name>> THEN <<>> ELSE activeGrid
          /\ returned' = CallReturned("removeGrid", Str(name), Null)
    /\ UNCHANGED visualization
    /\ UNCHANGED restOfWorkspace

setActiveGrid ==
    /\ \E gridName \in GridNames :
          IF gridName \in DOMAIN grids
          THEN /\ activeGrid' = <<gridName>>
               /\ returned' = CallReturned("setActiveGrid", Str(gridName), Null)
          ELSE /\ UNCHANGED activeGrid
               /\ returned' = CallReturned("setActiveGrid", Str(gridName),
                                           Thrown("Grid not found in workspace"))
    /\ UNCHANGED <<grids, visualization>>
    /\ UNCHANGED restOfWorkspace

clearWorkspace ==
    /\ grids' = <<>>
    /\ activeGrid' = <<>>
    /\ visualization' = DefaultVisualization
    /\ returned' = CallReturned("clearWorkspace", Null, Null)
    /\ UNCHANGED restOfWorkspace

WorkspaceNext ==
    \/ WorkspaceAddGrid
    \/ removeGrid
    \/ setActiveGrid
    \/ clearWorkspace

WorkspaceSpec == WorkspaceInit /\ [][WorkspaceNext]_vars

(***************************************************************************)
(* commandInterpreter on its own: any sequence of execute calls.            *)
(***************************************************************************)
MaxArgs == 3

ArgTexts == {"1", "true"}

\* The pieces of name(arg, arg, ...)
RECURSIVE Joined(_)
Joined(args) ==
    IF args = <<>> THEN <<>>
    ELSE IF Len(args) = 1 THEN <<args[1]>>
    ELSE <<args[1], ",", " ">> \o Joined(Tail(args))

CallText(name, args) == <<name, "(">> \o Joined(args) \o <<")">>

\* Calls of four names with every list of up to MaxArgs arguments, and inputs that
\* try each function, each kind of value and each way of not being a call.
Inputs ==
    {CallText(name, args) : <<name, args>> \in
        {"generateGrid", "setWireframe", "help", "nosuch"} \X SeqsUpTo(ArgTexts, MaxArgs)}
    \cup {CallText(name, <<>>) : name \in DOMAIN signatures}
    \cup {<<name>> : name \in {"clear", "listGrids", "nosuch", "generateGrid"}}
    \cup {CallText("clear", <<"1">>), CallText("generateGrid", <<"1", "'a'", "1">>),
          CallText("generateGrid", <<"1", "1", "1", "1">>),
          CallText("generateGrid", <<"1", "", "1">>),
          CallText("loadGRDECL", <<"'a'">>), CallText("loadGRDECL", <<"1">>),
          CallText("setEdges", <<"true">>), CallText("setColormap", <<"\"jet\"">>),
          CallText("setWireframe", <<"'a'">>), CallText("help", <<"'a'">>),
          CallText("setColormap", <<"'a'">>), CallText("setColormap", <<"jet">>),
          CallText("setView", <<"'a'">>),
          CallText("help", <<"\"help\"">>), CallText("help", <<"null">>),
          CallText("help", <<"undefined">>), CallText("help", <<"[", "1", "]">>),
          <<" ", "help", " ", "(", " ", ")", " ">>,
          <<"help", "(">>, <<"help", ")">>, <<"help", "(", ")", "1">>,
          <<"1", "(", ")">>, <<"(", ")">>, <<>>, <<" ">>, <<"help", " ", "clear">>}

restOfInterpreter ==
    <<lines, pc, error, scanVars, cellVars, caller, pending, pageVars, outputLines,
      isExecuting, executed, completed, commands, currentIndex, stored, accepted,
      wasmVars>>

InterpreterInit ==
    /\ Unmounted
    /\ HistoryFresh
    /\ NotWaiting

execute ==
    /\ \E input \in Inputs : executeInput(input)
    /\ UNCHANGED restOfInterpreter

InterpreterNext == execute

InterpreterSpec == InterpreterInit /\ [][InterpreterNext]_vars

(***************************************************************************)
(* waitForModule on its own: the polls of checkModule, the timers between   *)
(* them, and the glue code that defines window.Module and makes it ready.   *)
(***************************************************************************)
maxWaitTime == 10000

pollDelay == 50

MaxElapsed == 10200

restOfWasm ==
    <<lines, pc, error, scanVars, cellVars, caller, pending, pageVars, grids, activeGrid,
      outputLines, isExecuting, executed, completed, historyVars, visualization, invoked>>

\* waitForModule() is called: startTime is taken and checkModule is about to run.
WasmInit ==
    /\ Unmounted
    /\ HistoryFresh
    /\ windowModule \in {"absent", "loading", "ready"}
    /\ elapsed = 0
    /\ timer = "due"
    /\ promise = "pending"

checkModule ==
    /\ timer = "due"
    /\ IF windowModule # "absent"
       THEN IF windowModule = "ready"
            THEN promise' = "resolved" /\ timer' = "none"
            ELSE promise' = promise /\ timer' = "armed"
       ELSE IF elapsed > maxWaitTime
       THEN promise' = "rejected" /\ timer' = "none"
       ELSE promise' = promise /\ timer' = "armed"
    /\ UNCHANGED <<windowModule, elapsed>>
    /\ UNCHANGED restOfWasm

\* setTimeout(checkModule, 50): the callback is due after 50 ms or later.
TimerFires ==
    /\ timer = "armed"
    /\ \E late \in {0, pollDelay} :
          /\ elapsed + pollDelay + late <= MaxElapsed
          /\ elapsed' = elapsed + pollDelay + late
    /\ timer' = "due"
    /\ UNCHANGED <<windowModule, promise>>
    /\ UNCHANGED restOfWasm

\* The glue code defines window.Module.
ModuleDefined ==
    /\ windowModule = "absent"
    /\ windowModule' = "loading"
    /\ UNCHANGED <<elapsed, timer, promise>>
    /\ UNCHANGED restOfWasm

\* The runtime has run: calledRun or _malloc is set.
ModuleReady ==
    /\ windowModule = "loading"
    /\ windowModule' = "ready"
    /\ UNCHANGED <<elapsed, timer, promise>>
    /\ UNCHANGED restOfWasm

WasmNext ==
    \/ checkModule
    \/ TimerFires
    \/ ModuleDefined
    \/ ModuleReady

WasmSpec == WasmInit /\ [][WasmNext]_vars

(***************************************************************************)
(* Vocabulary of the properties below.                                     *)
(***************************************************************************)
Returned == pc = "done"

Finished == pc \in {"done", "threw"}

\* nx, ny, nz were all parsed as positive integers.
DimsKnown == HasCells

NumCells == nx * ny * nz

NonZeroCount(flags) == Cardinality({p \in DOMAIN flags : ~IsZero(flags[p])})

\* COORD holds every pillar of the grid, each with its 6 numbers, and ZCORN every depth.
GeometryComplete ==
    /\ Len(coord) >= (nx + 1) * (ny + 1)
    /\ \A p \in DOMAIN coord : \A c \in 1..6 : coord[p][c] # Undefined
    /\ Len(zcorn) >= 8 * NumCells

NoActnumSection == \A p \in DOMAIN lines : ~StartsWith(lines[p], "ACTNUM")

Ones(n) == [x \in 1..n |-> Num(1)]

\* C1: for every valid input (the expanded ACTNUM has exactly nx*ny*nz entries, COORD
\* and ZCORN are complete) parseGrdecl returns, and the active-cell count it returns
\* equals the number of nonzero entries of the expanded ACTNUM array.
C1_ActiveCountIsNonzeroActnum ==
    (Finished /\ DimsKnown /\ GeometryComplete /\ Len(actnum) = NumCells)
        => (Returned /\ activeCellCount = NonZeroCount(actnum))

C1_Witness ==
    /\ Returned /\ DimsKnown /\ GeometryComplete /\ Len(actnum) = NumCells
    /\ NumCells = MaxDim * MaxDim * MaxDim
    /\ activeCellCount = NumCells - 1

\* C2: with no ACTNUM section at all and SPECGRID, COORD and ZCORN complete, every
\* one of the nx*ny*nz cells is active: the count is nx*ny*nz and every slot holds
\* 8 corners.
C2_NoActnumAllActive ==
    (Finished /\ NoActnumSection /\ DimsKnown /\ GeometryComplete)
        => /\ Returned
           /\ activeCellCount = NumCells
           /\ Len(cellVertices) = NumCells
           /\ \A c \in DOMAIN cellVertices : Len(cellVertices[c]) = 8

C2_Witness ==
    /\ Returned /\ NoActnumSection /\ DimsKnown /\ GeometryComplete
    /\ NumCells = MaxDim * MaxDim * MaxDim
    /\ activeCellCount = NumCells

\* C3: with no ACTNUM section at all, the actnum field of the result is a
\* synthesized all-ones array of length nx*ny*nz.
C3_NoActnumYieldsOnes ==
    (Returned /\ NoActnumSection /\ DimsKnown) => actnum = Ones(NumCells)

(***************************************************************************)
(* Properties of one scan step: the line being processed and what the      *)
(* section parser is handed when that line closes the open section.        *)
(***************************************************************************)
\* The line with its final slash removed ("1 1/" gives 1 1; "/" gives nothing).
WithoutFinalSlash(line) ==
    LET last == line[Len(line)]
    IN  SubSeq(line, 1, Len(line) - 1)
        \o (IF last.k = "intslash" THEN <<TInt(last.a)>> ELSE <<>>)

\* The tokens of the open section when the current line closes it: those of the
\* lines collected so far and those before the slash, without tokens holding a slash.
ClosedTokens ==
    SelectSeq(Flatten(sectionData) \o WithoutFinalSlash(CurrentLine),
              LAMBDA t : t.k \notin {"slash", "intslash"})

Closes(section) ==
    /\ Scanning
    /\ currentSection = section
    /\ ~IsKeywordLine(CurrentLine)
    /\ EndsWithSlash(CurrentLine)

TokenWidth(t) == IF t.k = "rle" THEN (IF t.a > 0 THEN t.a ELSE 0) ELSE 1

TokenFlag(t) == IF t.k = "rle" THEN Num(t.b) ELSE Num(t.a)

RECURSIVE WidthBefore(_, _)
WidthBefore(toks, p) ==
    IF p <= 1 THEN 0 ELSE WidthBefore(toks, p - 1) + TokenWidth(toks[p - 1])

TotalWidth(toks) == WidthBefore(toks, Len(toks) + 1)

\* out is the expansion of toks: token p fills TokenWidth consecutive entries with
\* its value, after the entries of the tokens before it.
IsExpansionOf(out, toks) ==
    /\ Len(out) = TotalWidth(toks)
    /\ \A p \in DOMAIN toks : \A q \in 1..TokenWidth(toks[p]) :
           out[WidthBefore(toks, p) + q] = TokenFlag(toks[p])

\* Every token is a plain integer or a count*value pair.
AllFlagTokens(toks) == \A p \in DOMAIN toks : toks[p].k \in {"int", "rle"}

\* C4 as stated: for every token sequence of an ACTNUM section, the array is the
\* expansion of the tokens (count*value gives count copies, a plain token one
\* entry, in token order).
C4_ExpansionForEveryTokenSequence ==
    [][(Closes("ACTNUM") /\ AllFlagTokens(ClosedTokens))
          => IsExpansionOf(actnum', ClosedTokens)]_vars

\* C4 as amended: the array is the expansion of the tokens whenever that expansion
\* has at least one entry; an expansion with no entry (no token, or only zero
\* counts) is replaced by nx*ny*nz ones, nx, ny, nz being the dimensions parsed so
\* far (by nothing when one of them is NaN).
C4_ExpansionWhenNonEmpty ==
    [][(Closes("ACTNUM") /\ AllFlagTokens(ClosedTokens)) =>
          IF TotalWidth(ClosedTokens) > 0
          THEN IsExpansionOf(actnum', ClosedTokens)
          ELSE LET total == Mul(Mul(specgrid.nx, specgrid.ny), specgrid.nz)
               IN  actnum' = IF IsFinite(total) THEN Ones(total.n) ELSE <<>>]_vars

\* "2*0 3*1" has been expanded to [0,0,1,1,1].
C4_Witness ==
    /\ pc # "scan"
    /\ Len(lines) > 0
    /\ lines[Len(lines)] = <<TRle(2, 0), TRle(3, 1), TSlash>>
    /\ actnum = <<Num(0), Num(0), Num(1), Num(1), Num(1)>>

\* The array a section fills, after the step.
SectionArrayNext(section) ==
    CASE section = "SPECGRID" -> specgrid'
      [] section = "COORD"    -> coord'
      [] section = "ZCORN"    -> zcorn'
      [] section = "ACTNUM"   -> actnum'

\* What the section's parser makes of the lines collected so far plus extra.
ParsedSection(section, extra) ==
    CASE section = "SPECGRID" -> parseSpecgrid(sectionData \o extra)
      [] section = "COORD"    -> parseCoord(sectionData \o extra)
      [] section = "ZCORN"    -> parseZcorn(sectionData \o extra)
      [] section = "ACTNUM"   -> parseActnum(sectionData \o extra, specgrid)

\* The data before the final slash of the current line, as collected lines.
DataBeforeSlash ==
    IF WithoutFinalSlash(CurrentLine) = <<>> THEN <<>>
    ELSE <<WithoutFinalSlash(CurrentLine)>>

\* A keyword line opens its section.
OpensSection ==
    (Scanning /\ IsKeywordLine(CurrentLine))
        => (currentSection' \in Keywords /\ StartsWith(CurrentLine, currentSection'))

\* A line without a final slash leaves an open section open.
StaysOpen ==
    (Scanning /\ currentSection # "" /\ ~EndsWithSlash(CurrentLine))
        => currentSection' # ""

\* The line closes the open section: the section's array is parsed from the lines
\* collected and the data before the slash, and no section is open afterwards.
ClosesWithData ==
    /\ currentSection' = ""
    /\ SectionArrayNext(currentSection) = ParsedSection(currentSection, DataBeforeSlash)

\* C5 as stated: after a keyword line the section is open until the next line that
\* is `/` or ends with `/`; that line closes the section with the data before its
\* slash included, and no section is open after it.
C5_NextSlashLineCloses ==
    [][/\ OpensSection
       /\ StaysOpen
       /\ (Scanning /\ currentSection # "" /\ EndsWithSlash(CurrentLine))
             => ClosesWithData]_vars

\* C5 as amended: the closing line is the next line ending with `/` that does not
\* itself start with a keyword; a line that starts with a keyword opens that
\* keyword's section even when it ends with `/`.
C5_NextNonKeywordSlashLineCloses ==
    [][/\ OpensSection
       /\ StaysOpen
       /\ (Scanning /\ currentSection # "" /\ EndsWithSlash(CurrentLine)
              /\ ~IsKeywordLine(CurrentLine))
             => ClosesWithData]_vars

\* ACTNUM, then "0 1/": the section is closed with 0 and 1 in it.
C5_Witness ==
    /\ pc = "scan"
    /\ lineIndex >= 2
    /\ lines[lineIndex - 1] = <<TKw("ACTNUM")>>
    /\ lines[lineIndex] = <<TInt(0), TIntSlash(1)>>
    /\ currentSection = ""
    /\ actnum = <<Num(0), Num(1)>>

(***************************************************************************)
(* SPECGRID and COORD                                                      *)
(***************************************************************************)
IsNumeric(t) == t.k \in {"int", "dec"}

\* The number a numeric token denotes.
Denotes(t) == IF t.k = "int" THEN Num(t.a) ELSE Add(Num(t.a), Frac(1, 2))

NumericTokens(toks) == SelectSeq(toks, IsNumeric)

\* The position in toks of its n-th numeric token.
NthNumericAt(toks, n) ==
    CHOOSE p \in DOMAIN toks :
        IsNumeric(toks[p]) /\ Len(NumericTokens(SubSeq(toks, 1, p))) = n

\* At least three numeric tokens, and nothing but F flags before the third one.
FlagsTrail(toks) ==
    /\ Len(NumericTokens(toks)) >= 3
    /\ \A p \in 1..NthNumericAt(toks, 3) : IsNumeric(toks[p]) \/ toks[p].k = "flag"

\* The numeric tokens are integers (dimensions are whole numbers).
AllIntegers(toks) == \A p \in DOMAIN toks : IsNumeric(toks[p]) => toks[p].k = "int"

\* C6: nx, ny, nz are the first three numeric tokens of the SPECGRID section; flag
\* tokens such as F, and whatever trails the three numbers, do not change the result.
C6_FirstThreeNumericTokens ==
    [][(Closes("SPECGRID") /\ FlagsTrail(ClosedTokens) /\ AllIntegers(ClosedTokens)) =>
          LET nums == NumericTokens(ClosedTokens)
          IN  specgrid' = [nx |-> Denotes(nums[1]), ny |-> Denotes(nums[2]),
                           nz |-> Denotes(nums[3])]]_vars

\* "2 F 1 2 /" and "1 2 1 T /" have been parsed.
C6_Witness ==
    /\ pc # "scan"
    /\ Len(lines) > 1
    /\ \/ /\ lines[2] = <<TInt(2), TFlag, TInt(1), TInt(2), TSlash>>
          /\ specgrid = [nx |-> Num(2), ny |-> Num(1), nz |-> Num(2)]
       \/ /\ lines[2] = <<TInt(1), TInt(2), TInt(1), TWord("T"), TSlash>>
          /\ specgrid = [nx |-> Num(1), ny |-> Num(2), nz |-> Num(1)]

\* C7: a SPECGRID section with fewer than three numeric tokens makes parseGrdecl
\* raise an error: it never returns a result in which nx, ny or nz is NaN.
C7_NoNaNDimensionReturned ==
    Returned => (~IsNaN(specgrid.nx) /\ ~IsNaN(specgrid.ny) /\ ~IsNaN(specgrid.nz))

\* C8: the numeric tokens of the COORD section are grouped in order into chunks of
\* 6: pillar p is tokens 6p..6p+5, and 6n tokens give exactly n pillars.
C8_PillarsAreChunksOfSix ==
    [][(Closes("COORD") /\ \A p \in DOMAIN ClosedTokens : IsNumeric(ClosedTokens[p])) =>
          LET toks == ClosedTokens
          IN  /\ Len(coord') >= Len(toks) \div 6
              /\ \A p \in 0..((Len(toks) \div 6) - 1) : \A c \in 0..5 :
                     coord'[p + 1][c + 1] = Denotes(toks[6 * p + c + 1])
              /\ (Len(toks) % 6 = 0) => (Len(coord') = Len(toks) \div 6)]_vars

\* Twelve tokens 1, 2, 3.5, ... 12.5 have become two pillars.
C8_Witness ==
    /\ pc # "scan"
    /\ Len(coord) = 2
    /\ coord[1] = <<Num(1), Num(2), Frac(7, 2), Num(4), Num(5), Frac(13, 2)>>
    /\ coord[2] = <<Num(7), Num(8), Frac(19, 2), Num(10), Num(11), Frac(25, 2)>>

(***************************************************************************)
(* Reconstructed geometry                                                  *)
(***************************************************************************)
\* The cell (i, j, k) whose linear index i + j*nx + k*nx*ny is idx.
CellOfIndex(idx) == <<idx % nx, (idx \div nx) % ny, idx \div (nx * ny)>>

\* The ZCORN index of corner c of cell (ci, cj, ck), as the algorithm states it.
DepthIndex(ci, cj, ck, c) ==
    LET offset == 2 * (ci + cj * (2 * nx) + ck * (2 * nx * 2 * ny))
        sub == <<0, 1, 2 * nx + 1, 2 * nx>>
    IN  offset + sub[(c % 4) + 1] + (IF c >= 4 THEN 4 * nx * ny ELSE 0)

\* The pillar of corner c of cell (ci, cj): (i,j), (i+1,j), (i+1,j+1), (i,j+1).
PillarOfCorner(ci, cj, c) ==
    LET at == << <<ci, cj>>, <<ci + 1, cj>>, <<ci + 1, cj + 1>>, <<ci, cj + 1>> >>[(c % 4) + 1]
    IN  coord[at[2] * (nx + 1) + at[1] + 1]

\* The point lies on the straight line through the pillar's two end points (stated
\* without division); nothing is said of a pillar with z1 = z2 or a non-finite number.
OnPillar(pt, pillar) ==
    (/\ \A c \in 1..6 : IsFinite(pillar[c])
     /\ IsFinite(pt[3])
     /\ pillar[3] # pillar[6])
        => /\ IsFinite(pt[1])
           /\ IsFinite(pt[2])
           /\ Mul(Sub(pt[1], pillar[1]), Sub(pillar[6], pillar[3]))
                = Mul(Sub(pt[3], pillar[3]), Sub(pillar[4], pillar[1]))
           /\ Mul(Sub(pt[2], pillar[2]), Sub(pillar[6], pillar[3]))
                = Mul(Sub(pt[3], pillar[3]), Sub(pillar[5], pillar[2]))

\* C9: every stored corner c of cell (i,j,k) has as z the ZCORN entry at
\* offset + {0, 1, 2nx+1, 2nx}[c mod 4] (+ 4*nx*ny for c >= 4), and lies on the pillar
\* (i,j), (i+1,j), (i+1,j+1), (i,j+1) for c mod 4 = 0, 1, 2, 3 at that depth; corners
\* c and c+4 have the same (x,y) when their depths are equal.
C9_CornersFromPillarsAndDepths ==
    (pc \in {"cells", "done", "threw"} /\ DimsKnown) =>
        \A s \in DOMAIN cellVertices :
            Len(cellVertices[s]) = 8 =>
                LET cell == CellOfIndex(s - 1)
                    zi(c) == DepthIndex(cell[1], cell[2], cell[3], c)
                    corner(c) == cellVertices[s][c + 1]
                IN  /\ \A c \in 0..7 :
                        zi(c) < Len(zcorn) =>
                            /\ corner(c)[3] = zcorn[zi(c) + 1]
                            /\ OnPillar(corner(c), PillarOfCorner(cell[1], cell[2], c))
                    /\ \A c \in 0..3 :
                        (zi(c + 4) < Len(zcorn) /\ zcorn[zi(c) + 1] = zcorn[zi(c + 4) + 1])
                            => /\ corner(c)[1] = corner(c + 4)[1]
                               /\ corner(c)[2] = corner(c + 4)[2]

\* The last cell of the largest ramp grid has been reconstructed, off the integer
\* lattice.
C9_Witness ==
    /\ Returned /\ DimsKnown
    /\ NumCells = MaxDim * MaxDim * MaxDim
    /\ Len(cellVertices) = NumCells
    /\ Len(cellVertices[NumCells]) = 8
    /\ coord[1][4] # coord[1][1]
    /\ \E c \in 1..8 : cellVertices[NumCells][c][1].d = 2

\* C10: the corner list has one slot per cell in linear-index order, nx*ny*nz at the
\* end; the slot of a cell with ACTNUM = 0 is empty, adds no vertex to the pool and
\* is not counted; the slot of an active cell holds exactly 8 corners.
C10_OneSlotPerCell ==
    /\ CellPending => Len(cellVertices) = i + j * nx + k * nx * ny
    /\ (Returned /\ DimsKnown) =>
          /\ Len(cellVertices) = NumCells
          /\ \A s \in DOMAIN cellVertices :
                Len(cellVertices[s]) = IF IsZero(At(actnum, s - 1)) THEN 0 ELSE 8
          /\ activeCellCount = Cardinality({s \in DOMAIN cellVertices : cellVertices[s] # <<>>})
          /\ \A v \in DOMAIN allVertices :
                \E s \in DOMAIN cellVertices : \E c \in DOMAIN cellVertices[s] :
                    VertexKey(cellVertices[s][c]) = VertexKey(allVertices[v])
    /\ (Returned /\ ~DimsKnown) => (cellVertices = <<>> /\ allVertices = <<>>)

C10_Witness ==
    /\ Returned /\ DimsKnown
    /\ NumCells = MaxDim * MaxDim * MaxDim
    /\ cellVertices[1] = <<>>
    /\ Len(cellVertices[NumCells]) = 8
    /\ activeCellCount = NumCells \div 2

(***************************************************************************)
(* The vertex pool                                                         *)
(***************************************************************************)
\* A number rounded to 6 decimals, in signed millionths; non-finite values keep
\* their text.
Rounded(q) ==
    IF IsFinite(q) THEN [s |-> "", m |-> Sgn(q.n) * toFixed(q).m] ELSE toFixed(q)

RoundedPoint(v) == <<Rounded(v[1]), Rounded(v[2]), Rounded(v[3])>>

\* The slots of the cells whose loop body has run to its end.
ProcessedSlots == {s \in DOMAIN cellVertices : s <= cellIdx}

\* The corners stored so far for processed cells, as <<slot, corner>> pairs.
ProcessedCorners ==
    UNION {{<<s, c>> : c \in DOMAIN cellVertices[s]} : s \in ProcessedSlots}

CornerAt(sc) == cellVertices[sc[1]][sc[2]]

\* C11: at every point of a pass no two pool entries have the same coordinates
\* rounded to 6 decimals, every corner of every processed active cell has a pool
\* entry with its rounded key, and two corners whose coordinates agree to 6
\* decimals map to the same pool index.
C11_PoolDeduplicated ==
    /\ \A p, q \in DOMAIN allVertices :
          p # q => RoundedPoint(allVertices[p]) # RoundedPoint(allVertices[q])
    /\ \A a \in ProcessedCorners :
          /\ VertexKey(CornerAt(a)) \in DOMAIN vertexMap
          /\ VertexKey(allVertices[vertexMap[VertexKey(CornerAt(a))] + 1])
                = VertexKey(CornerAt(a))
    /\ \A a, b \in ProcessedCorners :
          RoundedPoint(CornerAt(a)) = RoundedPoint(CornerAt(b))
            => vertexMap[VertexKey(CornerAt(a))] = vertexMap[VertexKey(CornerAt(b))]

\* The pool new extends the pool old: the vertices of old are a prefix of those of
\* new, every key of old keeps its index, and the counter of new is its length.
PoolExtends(old, new) ==
    /\ Len(old.allVertices) <= Len(new.allVertices)
    /\ SubSeq(new.allVertices, 1, Len(old.allVertices)) = old.allVertices
    /\ \A key \in DOMAIN old.vertexMap :
          key \in DOMAIN new.vertexMap /\ new.vertexMap[key] = old.vertexMap[key]
    /\ new.vertexIndex = Len(new.allVertices)

PoolNext == [allVertices |-> allVertices', vertexMap |-> vertexMap',
             vertexIndex |-> vertexIndex']

\* The current cell is active and all its pillars and depths are there.
CellComputable ==
    CellPending /\ ~IsZero(At(actnum, cellIdx)) /\ PillarsPresent /\ DepthsPresent

\* A pass of generateCellVertices starts: its pool is declared empty.
PassStarts == pc = "scan" /\ pc' = "cells" /\ allVertices' = <<>> /\ vertexIndex' = 0

\* C12: the pool is append-only during a pass: across every step (of a cell, and of
\* each addVertex call within a cell) it is a prefix-extension of its previous
\* value, the index assigned to a key never changes, and the next-index counter
\* equals the pool length.
C12_PoolAppendOnly ==
    [][/\ vertexIndex = Len(allVertices)
       /\ (PassStarts \/ PoolExtends(Pool, PoolNext))
       /\ CellComputable =>
             \A cnt \in 0..7 :
                PoolExtends(AddVertices(Pool, cellVerts, cnt),
                            AddVertices(Pool, cellVerts, cnt + 1))]_vars

\* A second cell has reused vertices of the first and added its own.
C12_Witness ==
    /\ pc = "cells"
    /\ activeCellCount >= 2
    /\ Len(allVertices) > 8
    /\ Len(allVertices) < 8 * activeCellCount
    /\ vertexIndex = Len(allVertices)

(***************************************************************************)
(* The unit cube                                                           *)
(***************************************************************************)
Point(x, y, z) == <<Num(x), Num(y), Num(z)>>

UnitCubeCorners ==
    << Point(0, 0, 0), Point(1, 0, 0), Point(1, 1, 0), Point(0, 1, 0),
       Point(0, 0, 1), Point(1, 0, 1), Point(1, 1, 1), Point(0, 1, 1) >>

\* One cell whose four pillars are the vertical edges of the unit cube, with the
\* top face at depth 0 and the bottom face at depth 1, and not switched off.
DescribesUnitCube ==
    /\ specgrid = [nx |-> Num(1), ny |-> Num(1), nz |-> Num(1)]
    /\ Len(coord) = 4
    /\ \A p \in 1..4 :
          /\ coord[p][1] = Num((p - 1) % 2) /\ coord[p][4] = coord[p][1]
          /\ coord[p][2] = Num((p - 1) \div 2) /\ coord[p][5] = coord[p][2]
          /\ IsFinite(coord[p][3]) /\ IsFinite(coord[p][6])
          /\ coord[p][3] # coord[p][6]
    /\ zcorn = [x \in 1..8 |-> Num((x - 1) \div 4)]
    /\ ~IsZero(At(actnum, 0))

\* C13: for nx=ny=nz=1 with COORD and ZCORN describing the unit cube the result
\* has exactly the 8 corners (0,0,0), (1,0,0), (1,1,0), (0,1,0), (0,0,1), (1,0,1),
\* (1,1,1), (0,1,1) in this order, one active cell and 8 pool vertices.
C13_UnitCube ==
    (Returned /\ DescribesUnitCube) =>
        /\ cellVertices = <<UnitCubeCorners>>
        /\ activeCellCount = 1
        /\ Len(allVertices) = 8
        /\ allVertices = UnitCubeCorners

C13_Witness == Returned /\ DescribesUnitCube /\ Len(cellVertices) = 1

(***************************************************************************)
(* The two producers                                                       *)
(***************************************************************************)
\* What the Cartesian generator returns for the dimensions read by the parser.
Generated == createCartesianGRDECL(nx, ny, nz)

\* The parsed sections are the generator's own pillars, depths and flags.
FromGenerator ==
    /\ DimsKnown
    /\ Flatten(coord) = Generated.coord
    /\ zcorn = Generated.zcorn
    /\ actnum = Generated.actnum

DistinctPoints(cellList) ==
    UNION {{cellList[s][c] : c \in DOMAIN cellList[s]} : s \in DOMAIN cellList}

\* C14: for every box the per-cell corners emitted by the Cartesian generator equal
\* those the reconstructor computes from the generator's own pillars, ZCORN and
\* all-ones ACTNUM, with the same active-cell count nx*ny*nz and
\* (nx+1)*(ny+1)*(nz+1) unique vertices.
C14_ProducersAgree ==
    (Returned /\ FromGenerator) =>
        /\ cellVertices = Generated.cells.cellVertices
        /\ activeCellCount = Generated.cells.num
        /\ activeCellCount = NumCells
        /\ Len(allVertices) = (nx + 1) * (ny + 1) * (nz + 1)
        /\ Cardinality(DistinctPoints(Generated.cells.cellVertices)) = Len(allVertices)
        /\ {allVertices[v] : v \in DOMAIN allVertices}
              = DistinctPoints(Generated.cells.cellVertices)

\* The 2x2x2 box: 8 active cells, 27 unique vertices.
C14_Witness ==
    /\ Returned /\ FromGenerator
    /\ activeCellCount = 8
    /\ Len(allVertices) = 27

\* The grid has the shape of GrdeclData for its dimensions: a depth for every cell
\* corner, a flag for every cell, a cells structure with the active count and one
\* list of 8 corners per cell, corners 0-3 on one face and 4-7 on the other above
\* the same (x, y), a pillar record of 6 numbers for every pillar, and the vertex
\* pool.
HasReaderShape(g) ==
    LET gx == g.specgrid.nx.n
        gy == g.specgrid.ny.n
        gz == g.specgrid.nz.n
        cv == g.cells.cellVertices
    IN  /\ DOMAIN g = {"specgrid", "coord", "zcorn", "actnum", "cells"}
        /\ Len(g.zcorn) = 8 * gx * gy * gz
        /\ Len(g.actnum) = gx * gy * gz
        /\ g.cells.num = Cardinality({s \in DOMAIN cv : cv[s] # <<>>})
        /\ Len(cv) = gx * gy * gz
        /\ \A s \in DOMAIN cv :
              /\ Len(cv[s]) = 8
              /\ \A c \in 1..4 :
                    /\ cv[s][c][3] = cv[s][1][3]
                    /\ cv[s][c + 4][3] = cv[s][5][3]
                    /\ cv[s][c + 4][1] = cv[s][c][1]
                    /\ cv[s][c + 4][2] = cv[s][c][2]
              /\ Less(cv[s][1][3], cv[s][5][3])
              /\ Less(cv[s][1][1], cv[s][2][1]) /\ cv[s][3][1] = cv[s][2][1]
              /\ Less(cv[s][1][2], cv[s][4][2]) /\ cv[s][3][2] = cv[s][4][2]
        /\ Len(g.coord) = (gx + 1) * (gy + 1)
        /\ \A p \in DOMAIN g.coord : Len(g.coord[p]) = 6
        /\ DOMAIN g.cells = {"num", "vertices", "cellVertices"}

\* C15: the grid of the Cartesian generator has the shape of the reader's result:
\* dimensions, (nx+1)*(ny+1) pillar records of 6 numbers, 8*nx*ny*nz depths,
\* nx*ny*nz flags, and cells with the active count, the deduplicated vertex pool
\* and one 8-corner list per cell, corners 0-3 on the lower and 4-7 on the upper face.
C15_GeneratorHasReaderShape ==
    "grid1" \in DOMAIN grids => HasReaderShape(grids["grid1"])

(***************************************************************************)
(* Failure modes                                                           *)
(***************************************************************************)
\* The pass of generateCellVertices has begun.
InPass == pc \in {"cells", "done", "threw"}

\* Every coordinate of every stored corner is a finite number.
CornersFinite ==
    \A s \in DOMAIN cellVertices : \A c \in DOMAIN cellVertices[s] :
        \A a \in 1..3 : IsFinite(cellVertices[s][c][a])

\* C16: if COORD lacks a pillar referenced by some cell, or ZCORN is shorter than
\* 8*nx*ny*nz, parseGrdecl fails with an error and never returns a result that
\* contains undefined or NaN corner geometry.
C16_MissingGeometryFailsLoudly ==
    (Finished /\ DimsKnown /\ ~GeometryComplete) =>
        /\ pc = "threw"
        /\ error # ""
        /\ Returned => CornersFinite

\* The number of pillars, depths or flags differs from what nx, ny, nz call for
\* (an absent ACTNUM section stands for all cells active).
DimensionMismatch ==
    \/ Len(coord) # (nx + 1) * (ny + 1)
    \/ Len(zcorn) # 8 * NumCells
    \/ (~NoActnumSection /\ Len(actnum) # NumCells)

\* C17: whenever the COORD pillar count, the ZCORN length or the ACTNUM length is
\* inconsistent with nx, ny, nz, a DimensionMismatchError is raised before the
\* first cell slot or pool vertex is produced.
C17_MismatchRaisedBeforeGeometry ==
    (InPass /\ DimsKnown /\ DimensionMismatch) =>
        /\ cellVertices = <<>>
        /\ allVertices = <<>>
        /\ Finished => (pc = "threw" /\ error = "DimensionMismatchError")

\* Pillar z1 = z2: the denominator of the interpolation is zero.
IsDegenerate(pillar) == IsFinite(pillar[3]) /\ pillar[3] = pillar[6]

\* Cell number idx (0-based) stands on a degenerate pillar.
OnDegeneratePillar(idx) ==
    \E c \in 0..3 :
        IsDegenerate(PillarOfCorner(CellOfIndex(idx)[1], CellOfIndex(idx)[2], c))

\* C18: a pillar with z1 = z2 used by an active cell causes a DegeneratePillarError;
\* the division is guarded and no corner is produced from a zero denominator.
C18_DegeneratePillarRejected ==
    (InPass /\ DimsKnown /\ Len(coord) >= (nx + 1) * (ny + 1)) =>
        /\ \A s \in DOMAIN cellVertices :
              cellVertices[s] # <<>> => ~OnDegeneratePillar(s - 1)
        /\ (Finished /\ \E idx \in 0..(NumCells - 1) :
                            ~IsZero(At(actnum, idx)) /\ OnDegeneratePillar(idx))
              => (pc = "threw" /\ error = "DegeneratePillarError")

(***************************************************************************)
(* The callers                                                             *)
(***************************************************************************)
\* The step on which the load of handler who fails: its fetch fails, or the
\* parseGrdecl it called has thrown and control is back in its catch block.
LoadFails(who) ==
    \/ Idle /\ pc' = "idle" /\ who \in pending /\ who \notin pending'
    \/ pc = "threw" /\ caller = who /\ pc' = "idle"

\* C19: when a load fails (fetch error or parseGrdecl throws) the grid loaded
\* before stays displayed and stored: the page's grdeclData is unchanged; the
\* command path adds no grid to the workspace and does not call the grid-update
\* callback; only the error text is presented.
C19_FailedLoadKeepsGrid ==
    [][/\ LoadFails("page") =>
             /\ grdeclData' = grdeclData
             /\ grid' = grid
             /\ grids' = grids /\ activeGrid' = activeGrid
             /\ statsText' = "error"
             /\ outputLines' = outputLines
       /\ LoadFails("command") =>
             /\ grids' = grids /\ activeGrid' = activeGrid
             /\ grdeclData' = grdeclData
             /\ grid' = grid
             /\ statsText' = statsText
             /\ outputLines' = outputLines
                    \o << [type |-> "error", text |-> "Failed to load GRDECL"],
                          [type |-> "output", text |-> ""] >>]_vars

\* parseGrdecl has thrown under loadGRDECL while a grid was displayed and stored:
\* the error is shown and the grid is still there.
C19_Witness ==
    /\ Idle
    /\ error = "TypeError"
    /\ grdeclData # <<>>
    /\ DOMAIN grids # {}
    /\ Len(outputLines) >= 2
    /\ outputLines[Len(outputLines) - 1].type = "error"

\* A call of parseGrdecl made by a handler has just ended.
CallEnded == Finished /\ caller \in {"page", "command"}

\* C20: parseGrdecl is pure, with per-call state: a call on a text ends as the first
\* call on the same text did (same value returned or same exception), whatever
\* calls on the same or on other texts were made in between, and it starts from
\* freshly declared locals.
C20_CallsAreIndependent ==
    /\ (CallEnded /\ lines \in DOMAIN completed) => Outcome = completed[lines]
    /\ (pc = "scan" /\ lineIndex = 0) =>
          /\ currentSection = FreshLocals.currentSection
          /\ sectionData = FreshLocals.sectionData
          /\ specgrid = FreshLocals.specgrid
          /\ coord = FreshLocals.coord
          /\ zcorn = FreshLocals.zcorn
          /\ actnum = FreshLocals.actnum

\* A text is parsed again after calls on two different texts have ended.
C20_Witness ==
    /\ CallEnded
    /\ lines \in DOMAIN completed
    /\ Cardinality(DOMAIN completed) >= 2

(***************************************************************************)
(* Sections and their order                                                *)
(***************************************************************************)
\* The line begins with one of the four keywords as a word of its own.
IsRecognizedKeywordLine(line) == Len(line) > 0 /\ line[1].k = "kw"

\* After the first n lines of the text a recognized section is open: its keyword
\* line has been read and no terminator line since.
RECURSIVE RecognizedOpen(_)
RecognizedOpen(n) ==
    IF n = 0 THEN FALSE
    ELSE IF IsRecognizedKeywordLine(lines[n]) THEN TRUE
    ELSE IF EndsWithSlash(lines[n]) THEN FALSE
    ELSE RecognizedOpen(n - 1)

\* C21: unknown section keywords are ignored: a line that is not one of the four
\* keywords is collected only while a recognized section is open; lines (whole
\* unknown sections and their terminating / included) read while no recognized
\* section is open leave specgrid, coord, zcorn and actnum unchanged and collect
\* nothing.
C21_UnknownSectionsIgnored ==
    [][(Scanning /\ lineIndex' = lineIndex + 1
          /\ ~IsRecognizedKeywordLine(CurrentLine)
          /\ ~RecognizedOpen(lineIndex))
        => /\ UNCHANGED <<specgrid, coord, zcorn, actnum>>
           /\ sectionData' = <<>>]_vars

\* ---- C22: the order of the sections ----

\* The tokens written in the ACTNUM section of a text, and the entries they expand to.
ActnumTokens(text) == Tokens(Tail(SectionOf(text, "ACTNUM")))

ActnumEntries(text) == ExpandFrom(ActnumTokens(text), 1, <<>>)

\* The second call, on the sections in the usual order, is over.
ReorderedCallEnded == Finished /\ caller = "canonical"

\* C22 as stated: a file with well-terminated SPECGRID, COORD, ZCORN and an ACTNUM
\* section that has data gives the same result in every order of its sections.
C22_OrderToleranceForWrittenActnum ==
    ReorderedCallEnded =>
        \A text \in DOMAIN completed :
            ActnumTokens(text) # <<>> => completed[text] = Outcome

\* C22: a file with well-terminated SPECGRID, COORD, ZCORN and an ACTNUM section
\* that expands to at least one entry gives the same result in every order of its
\* sections.
C22_OrderTolerance ==
    ReorderedCallEnded =>
        \A text \in DOMAIN completed :
            ActnumEntries(text) # <<>> => completed[text] = Outcome

\* Both calls returned, on a text whose ACTNUM has entries and precedes SPECGRID.
C22_Witness ==
    /\ ReorderedCallEnded /\ pc = "done"
    /\ \E text \in DOMAIN completed :
          /\ text # lines
          /\ ActnumEntries(text) # <<>>
          /\ KeywordOf(text[1]) = "ACTNUM"
          /\ completed[text][1] = "returned"

\* ---- C23: the ZCORN entries read ----

\* The index into zcorn read for corner c of cell (ci, cj, ck) of a gx x gy grid.
ZcornIndex(gx, gy, ci, cj, ck, c) ==
    zcornOffset(gx, gy, ci, cj, ck) + CornerOffset(gx, gy, c)

\* Every corner of every cell the loops visit.
CellCorners == (0..(nx - 1)) \X (0..(ny - 1)) \X (0..(nz - 1)) \X (0..7)

ZcornReads == {ZcornIndex(nx, ny, r[1], r[2], r[3], r[4]) : r \in CellCorners}

\* C23: for a grid with nx, ny, nz >= 1, the 8 indices read for each cell lie in
\* 0..8*nx*ny*nz-1, and over all cells and corners every index of that range is
\* read exactly once.
C23_ZcornAddressingBijective ==
    (pc \in {"cells", "done"} /\ HasCells) =>
        /\ ZcornReads \subseteq 0..(8 * NumCells - 1)
        /\ Cardinality(ZcornReads) = 8 * NumCells
        /\ Cardinality(CellCorners) = 8 * NumCells

\* A 2x2x2 grid has been generated, every cell read.
C23_Witness ==
    /\ pc = "done" /\ HasCells
    /\ nx = 2 /\ ny = 2 /\ nz = 2
    /\ activeCellCount = 8

\* ---- C24: when section data is committed ----

\* Line t of the text is a terminator: it ends with `/` and starts with no keyword.
IsTerminator(t) == ~IsKeywordLine(lines[t]) /\ EndsWithSlash(lines[t])

\* The keyword lines before line t with neither keyword line nor terminator between.
OpenersBefore(t) ==
    {p \in 1..(t - 1) :
        /\ IsKeywordLine(lines[p])
        /\ \A q \in (p + 1)..(t - 1) : ~IsKeywordLine(lines[q]) /\ ~IsTerminator(q)}

\* The section of the text that is open when line t is read, "" when none is.
OpenSectionAt(t) ==
    IF OpenersBefore(t) = {} THEN ""
    ELSE KeywordOf(lines[CHOOSE p \in OpenersBefore(t) : TRUE])

\* The data of the section that line t terminates: the non-empty lines after its
\* keyword line, and what line t has before its slash.
SectionText(t) ==
    LET opener == CHOOSE p \in OpenersBefore(t) : TRUE
    IN  SelectSeq(SubSeq(lines, opener + 1, t - 1), LAMBDA l : Len(l) > 0)
        \o (IF WithoutFinalSlash(lines[t]) = <<>> THEN <<>>
            ELSE <<WithoutFinalSlash(lines[t])>>)

SectionArray(section) ==
    CASE section = "SPECGRID" -> specgrid
      [] section = "COORD"    -> coord
      [] section = "ZCORN"    -> zcorn
      [] section = "ACTNUM"   -> actnum

ParseAs(section, data) ==
    CASE section = "SPECGRID" -> parseSpecgrid(data)
      [] section = "COORD"    -> parseCoord(data)
      [] section = "ZCORN"    -> parseZcorn(data)
      [] section = "ACTNUM"   -> parseActnum(data, specgrid)

\* parseGrdecl is entered.
NewCall == pc # "scan" /\ pc' = "scan"

\* C24: within a call an output changes only when the terminator of its own open
\* section is processed, and then it is parsed from the lines after the section's
\* last keyword line up to the terminator; so a section open at end of input or
\* superseded by a keyword line contributes nothing, and neither does data on a
\* keyword line.
C24_CommittedOnlyAtTerminator ==
    [][/\ \A kw \in Keywords :
             (SectionArrayNext(kw) # SectionArray(kw) /\ ~NewCall)
                 => /\ Scanning
                    /\ IsTerminator(lineIndex + 1)
                    /\ OpenSectionAt(lineIndex + 1) = kw
       /\ (Scanning /\ lineIndex' = lineIndex + 1 /\ IsTerminator(lineIndex + 1)
              /\ OpenSectionAt(lineIndex + 1) # "")
             => SectionArrayNext(OpenSectionAt(lineIndex + 1))
                    = ParseAs(OpenSectionAt(lineIndex + 1), SectionText(lineIndex + 1))]_vars

\* SPECGRID with data was superseded by ACTNUM, whose terminator has been processed:
\* specgrid has its default and actnum holds what the terminator line carried.
C24_Witness ==
    /\ lines = << <<TKw("SPECGRID")>>, <<TInt(1), TInt(1), TInt(1)>>,
                  <<TKw("ACTNUM")>>, <<TInt(0), TIntSlash(1)>> >>
    /\ lineIndex = 4
    /\ specgrid = FreshLocals.specgrid
    /\ actnum = <<Num(0), Num(1)>>

\* ---- C25..C27: the command history ----

\* The last n entries of a list, all of them when it has no more than n.
MostRecent(list, n) ==
    IF Len(list) <= n THEN list ELSE SubSeq(list, Len(list) - n + 1, Len(list))

\* C25: the history holds at most 100 commands, and they are the most recent (up to
\* 100) accepted commands in the order they were added.
C25_HistoryBounded ==
    /\ Len(commands) <= 100
    /\ commands = MostRecent(accepted, 100)

\* More than 100 commands have been accepted: the oldest ones were dropped.
C25_Witness ==
    /\ Len(accepted) > 100
    /\ Len(commands) = 100
    /\ returned.op = "add"

\* A string that is empty or holds nothing but spaces.
IsBlank(text) == \A p \in DOMAIN text : text[p] = " "

\* The command is one add refuses: blank, or equal to the last stored one.
Refused(command) ==
    IsBlank(command) \/ (commands # <<>> /\ command = commands[Len(commands)])

NoBlankNoRepeat ==
    /\ \A p \in DOMAIN commands : ~IsBlank(commands[p])
    /\ \A p \in 1..(Len(commands) - 1) : commands[p] # commands[p + 1]

\* C26: add of a blank command, or of one equal to the last stored, leaves the
\* commands, the navigation index and the persisted copy unchanged; the history
\* never holds a blank command nor two adjacent equal ones.
C26_RefusedAddChangesNothing ==
    /\ [][(returned'.op = "add" /\ Refused(returned'.arg.text))
            => UNCHANGED <<commands, currentIndex, stored>>]_vars
    /\ []NoBlankNoRepeat

\* After navigating away from the end, the last stored command was added again:
\* the index was not reset.
C26_Witness ==
    /\ returned.op = "add"
    /\ commands # <<>>
    /\ returned.arg.text = commands[Len(commands)]
    /\ currentIndex < Len(commands) - 1

IndexInRange ==
    IF currentIndex = -1 THEN commands = <<>>
    ELSE currentIndex \in 0..Len(commands)

\* navigateUp: null on an empty history, else the stored command before the current
\* one, staying on the oldest.
UpStep ==
    returned'.op = "navigateUp" =>
        IF commands = <<>> THEN returned'.value = Null
        ELSE /\ currentIndex' = (IF currentIndex > 0 THEN currentIndex - 1 ELSE 0)
             /\ returned'.value = Str(commands[currentIndex' + 1])

\* navigateDown on a history with commands: the next stored command, or the empty
\* string with currentIndex = commands.length at or past the newest.
DownStepFromStored ==
    IF currentIndex < Len(commands) - 1
    THEN /\ currentIndex' = currentIndex + 1
         /\ returned'.value = Str(commands[currentIndex' + 1])
    ELSE /\ currentIndex' = Len(commands)
         /\ returned'.value = Str(<<>>)

\* C27 as stated: the index stays in range, navigateUp returns null or a stored
\* command, and navigateDown returns the next stored command or the empty string
\* with currentIndex = commands.length.
C27_NavigationAsStated ==
    /\ []IndexInRange
    /\ [][/\ UpStep
           /\ returned'.op = "navigateDown" => DownStepFromStored]_vars

\* C27: the index stays in range, navigateUp returns null or a stored command, and
\* navigateDown returns null on an empty history (the index unchanged) and otherwise
\* the next stored command or the empty string with currentIndex = commands.length.
C27_NavigationInRange ==
    /\ []IndexInRange
    /\ [][/\ UpStep
           /\ returned'.op = "navigateDown" =>
                 IF commands = <<>>
                 THEN returned'.value = Null /\ UNCHANGED currentIndex
                 ELSE DownStepFromStored]_vars

\* navigateUp has returned the oldest of several commands.
C27_Witness ==
    /\ returned.op = "navigateUp"
    /\ Len(commands) >= 2
    /\ currentIndex = 0
    /\ returned.value = Str(commands[1])

\* ---- C28: the workspace ----

ActiveGridStored == activeGrid = <<>> \/ activeGrid[1] \in DOMAIN grids

\* C28: activeGrid is null or the name of a stored grid; setActiveGrid with a name
\* not in grids throws and changes nothing; addGrid changes activeGrid only when
\* none is set.
C28_ActiveGridIsStored ==
    /\ []ActiveGridStored
    /\ [][/\ (returned'.op = "setActiveGrid" /\ returned'.arg.text \notin DOMAIN grids)
                 => /\ returned'.value.kind = "threw"
                    /\ UNCHANGED <<grids, activeGrid>>
          /\ (returned'.op = "addGrid" /\ activeGrid' # activeGrid)
                 => activeGrid = <<>>]_vars

\* ---- C29: the command interpreter ----

\* The count is between the number of required and of declared parameters, and each
\* argument's typeof is the declared type.
ArgumentsFit(args, params) ==
    /\ Len(args) >= Cardinality({q \in DOMAIN params : ~params[q].optional})
    /\ Len(args) <= Len(params)
    /\ \A a \in DOMAIN args : args[a].type = params[a].type

\* The input parses as a call of a registered function with fitting arguments.
Gate(input) ==
    LET parsed == parseCommand(input)
    IN  /\ parsed # <<>>
        /\ parsed[1].functionName \in
              {"generateGrid", "loadGRDECL", "setWireframe", "setEdges", "setColormap",
               "setView", "resetCamera", "clear", "help", "listGrids"}
        /\ ArgumentsFit(parsed[1].args, signatures[parsed[1].functionName])

\* C29: execute always resolves with a result; a registry function runs only for an
\* input that parses as a call of a registered name with arguments that pass the
\* validation; otherwise the result has success = false and an error message, no
\* function runs and the workspace is unchanged.  (No function of the registry
\* rejects: each catches what it throws.)
C29_ExecuteGatesInvocation ==
    [][returned'.op = "execute" =>
          /\ returned'.value.kind = "result"
          /\ invoked' # <<>> =>
                /\ Gate(returned'.arg.text)
                /\ invoked'[1] = parseCommand(returned'.arg.text)[1]
          /\ ~Gate(returned'.arg.text) =>
                /\ invoked' = <<>>
                /\ ~returned'.value.success
                /\ returned'.value.error # ""
                /\ UNCHANGED <<grids, activeGrid, visualization>>]_vars

\* With a grid in the workspace and the wireframe on, a call with an argument of the
\* wrong type was refused.
C29_Witness ==
    /\ returned.op = "execute"
    /\ returned.arg.text = CallText("setWireframe", <<"1">>)
    /\ returned.value = Failure("must be a boolean")
    /\ invoked = <<>>
    /\ "grid1" \in DOMAIN grids
    /\ visualization.showWireframe

\* A run of checkModule: the due callback is consumed.
Polled == timer = "due" /\ timer' # "due"

\* C30: waitForModule always settles. Every poll that finds window.Module
\* ready (calledRun or _malloc set) resolves the promise, and every poll made
\* after maxWaitTime has passed with the module still not ready rejects it
\* with the timeout error instead of arming another poll.
C30_WaitForModuleSettles ==
    [][ Polled =>
          /\ (windowModule = "ready" => promise' = "resolved" /\ timer' = "none")
          /\ (windowModule # "ready" /\ elapsed > maxWaitTime
                 => promise' = "rejected" /\ timer' = "none") ]_vars

=============================================================================
